---- MODULE Spec2Model ----
(***************************************************************************)
(* A model of hidl-gen's driver (main.cpp) and of its text emitter         *)
(* (utils/Formatter.cpp).                                                  *)
(*                                                                         *)
(* Four specifications share the variables below:                          *)
(*   Spec        main(): the loop over the requested names, validation,    *)
(*               and the file-or-package fan-out of per-unit generation;   *)
(*   SpecCompat  isPackageJavaCompatible: the import worklist;             *)
(*   SpecPkg     generateMakefileForPackage and generateAndroidBpForPackage *)
(*               by sections, with packageNeedsJavaCode and                *)
(*               isTypesOnlyPackage;                                       *)
(*   SpecFmt     Formatter: indentation, line prefix and writes.           *)
(*                                                                         *)
(* Coordinator, AST and FQName are collaborators whose code is not part of *)
(* the two source files.  Their answers (the member list of a package, the *)
(* outcome of a parse, a unit's imports and flags) are inputs: Init draws  *)
(* them from small sets and they stay fixed for the whole invocation.      *)
(*                                                                         *)
(* A name of an FQName is a sequence of dot-separated components:          *)
(* "IFoo" is <<"IFoo">>, "types.T" is <<"types", "T">>, "" is <<>>.        *)
(* A text is a sequence of one-character strings.                          *)
(***************************************************************************)
EXTENDS Integers, Sequences, FiniteSets, TLC

VARIABLES
    \* ---- the collaborators' answers (fixed inputs)
    members,        \* package -> the vector appendPackageInterfacesToVector appends
    enumErr,        \* package -> the status appendPackageInterfacesToVector returns
    parseFail,      \* units <<package, name>> for which Coordinator::parse returns null
    genFail,        \* units whose AST::generate* returns an error
    exported,       \* units whose AST appends at least one @export type
    openFail,       \* TRUE when Coordinator::getFormatter cannot open the file
    \* ---- main()
    lang,           \* the key of the selected OutputHandler
    args,           \* argv[0 .. argc-1] after option parsing, as FQNames
    argi,           \* the loop variable i of main, 1-based
    pc,             \* where main stands
    err,            \* the status_t of the generate call in progress / returned
    memberList,     \* packageInterfaces of generateSourcesForPackage
    memberIdx,      \* position of the range-for over packageInterfaces, 1-based
    genCalls,       \* history: the calls of generateSourcesForFile, <<request, fqName>>
    parseLog,       \* history: the calls of Coordinator::parse, <<request, unit>>
    genInvoked,     \* history: the requests for which outputFormat->generate was called
    files,          \* output files created so far, each [req, unit]
    exitCode,       \* the process's exit status once pc = "exit"
    statuses,       \* history: the status each call of outputFormat->generate returned
    \* ---- more answers of the collaborators
    imports,        \* unit -> the packages AST::getImportedPackages reports
    incompat,       \* units whose AST::isJavaCompatible is false
    \* ---- isPackageJavaCompatible
    seed,           \* packageFQName, the package asked about
    todo,           \* the worklist vector
    seen,           \* the set of units ever put on the worklist
    cpc,            \* where isPackageJavaCompatible stands
    cerr,           \* its return value once cpc = "done"
    compatible,     \* *compatible: "true", "false", or "unset" until assigned
    pushCount,      \* history: unit -> how often it was put on the worklist
    popped,         \* history: the units taken from the worklist, in order
    \* ---- more answers of the collaborators
    pkgKind,        \* "transport", "system" or "other": where the package's name lies
    subTypes,       \* isTypeDef() of each type of types.hal's root scope, in order
    \* ---- generateMakefileForPackage and generateAndroidBpForPackage
    op,             \* which of the two runs: "makefile" or "androidbp"
    ppc,            \* where it stands
    perr,           \* its return value once ppc = "returned"
    packageInterfaces,  \* its vector of the package's members
    typesAST,       \* its typesAST pointer
    importedPackages,   \* its set of imported packages (importedPackagesHierarchy)
    needsJava,      \* history: how the call of packageNeedsJavaCode ended
    typesOnlyLog,   \* history: the calls of isTypesOnlyPackage, [package, err, result]
    sections,       \* the sections written to the output file, in order
    outFile,        \* the output file created, "none" before
    helperDeps,     \* the "-adapter-helper" dependencies written by the lambda
    \* ---- Formatter
    mFile,          \* where the Formatter writes: "file", "stdout", "NULL" once destroyed
    mIndentDepth,
    mAtStartOfLine,
    mLinePrefix,    \* a text
    mSpace,         \* the token output() removes, a text
    sink,           \* the text written to mFile so far
    fpc,            \* "live", "SIGABRT" after a failed assert, "destroyed"
    scopes,         \* the levels of the scoped indents whose func is running
    scopeEntry,     \* history: the depth at which each of them was called
    nOps,           \* history: the number of calls made on the Formatter
    lastOp,         \* history: the name of the last call
    lastText,       \* history: the argument of the last operator<<
    lastLevel,      \* history: the level of the last indent or unindent
    file,           \* the constructor's argument: "file", or "NULL" when none was opened
    \* ---- the generators' calls on their Formatter
    gname,          \* the generator that runs
    gin,            \* what its collaborators answer, fixed for the run
    gpos,           \* the next step of its run, 1-based
    gerr,           \* its local status_t err
    gret,           \* its return value, "running" until it returns
    failedAt,       \* history: Len(sink) when a collaborator first failed, -1 before
    \* ---- main(): the command line's options
    argv,           \* the options of the command line, in order, each [opt, arg]
    opti,           \* the next of them getopt hands out, 1-based
    outputPath,     \* a text
    roots,          \* the package roots registered with the Coordinator, in order
    generateForTest,
    \* ---- two runs of generateMakefileForPackage over the same resolved inputs
    discovered,     \* run -> the order in which imports and sub-types are reported
    run,            \* the run in progress, 1 or 2
    rpc,            \* where the run stands
    rImported,      \* its std::set importedPackages, as the sequence it iterates in
    rSubTypes,      \* the vector rootScope->getSubTypes() returns to it
    content,        \* the content of Android.mk
    firstContent,   \* history: the content the first run left
    \* ---- the resolutions of one run of generateMakefileForPackage
    cNames,         \* the members of the package, as enumerated
    cSubTypes,      \* the sub-types of types.hal's root scope: TRUE for a typedef
    cHaveConstants, \* haveJavaConstants: whether a member exports a type
    cCompatible,    \* packageIsJavaCompatible, once isPackageJavaCompatible set it
    mCache,         \* the Coordinator's cache: name -> AST
    parserRuns,     \* history: name -> the number of parser invocations
    site,           \* where the run stands: "loop", "compat", "needsJava",
                    \* "sections", or how it ended
    sidx,           \* the position of that site's loop, 1-based
    ssub,           \* the position of the loop over the sub-types, 1-based
    resolved,       \* history: the calls of parse, [site, name, ast]
    \* ---- main(): the root path and the output path
    pathMode,       \* mOutputMode of the handler chosen by -L
    pathOut,        \* outputPath, a text
    rootPath,       \* the Coordinator's root path, a text
    pathPc,         \* where main stands
    pathOpts,       \* the number of -p and -o options handed out
    backReads,      \* history: the strings whose back() was read
    \* ---- generateAdapterMainSource: the template-argument list
    tNames,         \* the names of packageInterfaces, in order
    tIdx,           \* the position of the range-for, 1-based
    tOut,           \* the tokens written
    tpc             \* "list" while the loop runs, "closed" after it

worldVars == <<members, enumErr, parseFail, genFail, exported, openFail>>
mainVars  == <<lang, args, argi, pc, err, memberList, memberIdx, genCalls,
               parseLog, genInvoked, files, exitCode, statuses>>
compatWorld == <<imports, incompat>>
compatVars == <<seed, todo, seen, cpc, cerr, compatible, pushCount, popped>>
pkgWorld  == <<pkgKind, subTypes>>
pkgVars   == <<op, ppc, perr, packageInterfaces, typesAST, importedPackages, needsJava,
               typesOnlyLog, sections, outFile, helperDeps>>
fmtVars   == <<mFile, mIndentDepth, mAtStartOfLine, mLinePrefix, mSpace, sink, fpc,
               scopes, scopeEntry, nOps, lastOp, lastText, lastLevel, file>>
genVars   == <<gname, gin, gpos, gerr, gret, failedAt>>
optVars   == <<argv, opti, outputPath, roots, generateForTest>>
regenVars == <<discovered, run, rpc, rImported, rSubTypes, content, firstContent>>
cacheVars == <<cNames, cSubTypes, cHaveConstants, cCompatible, mCache, parserRuns, site,
               sidx, ssub, resolved>>
pathVars  == <<pathMode, pathOut, rootPath, pathPc, pathOpts, backReads>>
tmplVars  == <<tNames, tIdx, tOut, tpc>>
detailVars == <<regenVars, cacheVars, pathVars, tmplVars>>
vars      == <<worldVars, mainVars, compatWorld, compatVars, pkgWorld, pkgVars, fmtVars,
               genVars, optVars, detailVars>>

----------------------------------------------------------------------------
(* Bounds of the model. *)

\* The largest number of names on the command line.
MaxArgs == 2

----------------------------------------------------------------------------
(* status_t *)

OK == "OK"
UNKNOWN_ERROR == "UNKNOWN_ERROR"
\* What appendPackageInterfacesToVector returns when the package's directory
\* cannot be read (-errno).
ENUM_ERROR == "ENOENT"

----------------------------------------------------------------------------
(* FQName *)

FQ(p, v, n) == [package |-> p, version |-> v, name |-> n, valid |-> TRUE]

\* What FQName's constructor leaves of a string it cannot parse.
InvalidFQName == [package |-> "", version |-> "", name |-> <<>>, valid |-> FALSE]

isValid(fq) == fq.valid

isFullyQualified(fq) ==
    fq.package # "" /\ fq.version # "" /\ fq.name # <<>>

\* FQName::getTypesForPackage: the types unit of fq's package.
getTypesForPackage(fq) == FQ(fq.package, fq.version, <<"types">>)

\* name.find('.') == std::string::npos
HasNoDot(name) == Len(name) <= 1

\* name.find("types.") == 0
StartsWithTypesDot(name) == Len(name) >= 2 /\ name[1] = "types"

----------------------------------------------------------------------------
(* The collaborators *)

\* The package of the model's requests, and its only version.
Pkg == "p"
Ver == "1.0"

\* The fully qualified name of member m of package p.
Unit(p, m) == FQ(p, Ver, <<m>>)

\* Coordinator::appendPackageInterfacesToVector: the status, and the vector
\* with the package's members appended in the enumeration's order.
appendPackageInterfacesToVector(p) ==
    IF p \in DOMAIN members /\ enumErr[p] = OK
    THEN [err |-> OK,
          vec |-> [k \in 1..Len(members[p]) |-> Unit(p, members[p][k])]]
    ELSE [err |-> IF p \in DOMAIN members THEN enumErr[p] ELSE ENUM_ERROR,
          vec |-> <<>>]

\* Coordinator::parse: TRUE when it returns an AST, FALSE when it returns null.
\* A unit parses when its file is a member of its package and is well formed.
parse(fq) ==
    /\ fq.package \in DOMAIN members
    /\ Len(fq.name) = 1
    /\ \E k \in 1..Len(members[fq.package]) : members[fq.package][k] = fq.name[1]
    /\ <<fq.package, fq.name[1]>> \notin parseFail

----------------------------------------------------------------------------
(* The table of output handlers (formats) *)

\* The handlers built by generationFunctionForFileOrPackage that the model runs.
FanOutLangs == {"check", "c++", "java"}
\* The handler of the model that takes a package only.
PackageLangs == {"export-header"}
Backends == FanOutLangs \cup PackageLangs

\* A validation that forgets the test of the name part.
validateIsPackageNoNameTest(fq, language) ==
    IF fq.package = "" THEN FALSE
    ELSE IF fq.version = "" THEN FALSE
    ELSE TRUE

validateIsPackage(fq, language) ==
    IF fq.package = "" THEN FALSE
    ELSE IF fq.version = "" THEN FALSE
    ELSE IF fq.name # <<>> THEN FALSE
    ELSE TRUE

\* validateForSource without the test of the language.
validateForSourceAnyLanguage(fq, language) ==
    IF fq.package = "" THEN FALSE
    ELSE IF fq.version = "" THEN FALSE
    ELSE IF fq.name # <<>>
         THEN IF HasNoDot(fq.name) THEN TRUE
              ELSE IF ~StartsWithTypesDot(fq.name) THEN FALSE
              ELSE TRUE
    ELSE TRUE

validateForSource(fq, language) ==
    IF fq.package = "" THEN FALSE
    ELSE IF fq.version = "" THEN FALSE
    ELSE IF fq.name # <<>>
         THEN IF HasNoDot(fq.name) THEN TRUE
              ELSE IF language # "java" \/ ~StartsWithTypesDot(fq.name) THEN FALSE
              ELSE TRUE
    ELSE TRUE

\* OutputHandler::validate of the handler with key l.
validate(l, fq) ==
    IF l \in PackageLangs THEN validateIsPackage(fq, l) ELSE validateForSource(fq, l)

----------------------------------------------------------------------------
(* Start values of the components a specification does not run *)

IdleMain ==
    /\ lang = "check"
    /\ args = <<>>
    /\ argi = 1
    /\ pc = "idle"
    /\ err = OK
    /\ memberList = <<>>
    /\ memberIdx = 1
    /\ genCalls = <<>>
    /\ parseLog = <<>>
    /\ genInvoked = <<>>
    /\ files = {}
    /\ exitCode = "running"
    /\ statuses = <<>>
    /\ genFail = {}
    /\ exported = {}
    /\ openFail = FALSE

\* A null AST pointer, and the AST of a types unit whose root scope declares
\* the types s (each TRUE for a typedef).
NullAST == [null |-> TRUE, subTypes |-> <<>>]
AST(s) == [null |-> FALSE, subTypes |-> s]

IdlePkg ==
    /\ pkgKind = "other"
    /\ subTypes = <<>>
    /\ op = "idle"
    /\ ppc = "idle"
    /\ perr = OK
    /\ packageInterfaces = <<>>
    /\ typesAST = NullAST
    /\ importedPackages = {}
    /\ needsJava = "unset"
    /\ typesOnlyLog = <<>>
    /\ sections = <<>>
    /\ outFile = "none"
    /\ helperDeps = <<>>

IdleFmt ==
    /\ mFile = "NULL"
    /\ mIndentDepth = 0
    /\ mAtStartOfLine = TRUE
    /\ mLinePrefix = <<>>
    /\ mSpace = <<>>
    /\ sink = <<>>
    /\ fpc = "idle"
    /\ scopes = <<>>
    /\ scopeEntry = <<>>
    /\ nOps = 0
    /\ lastOp = "none"
    /\ lastText = <<>>
    /\ lastLevel = 0
    /\ file = "NULL"

IdleGen ==
    /\ gname = "idle"
    /\ gin = <<>>
    /\ gpos = 1
    /\ gerr = OK
    /\ gret = "running"
    /\ failedAt = -1

IdleOpt ==
    /\ argv = <<>>
    /\ opti = 1
    /\ outputPath = <<>>
    /\ roots = <<>>
    /\ generateForTest = FALSE

IdleWorld ==
    /\ members = <<>>
    /\ enumErr = <<>>
    /\ parseFail = {}

IdleRegen ==
    /\ discovered = <<>>
    /\ run = 0
    /\ rpc = "idle"
    /\ rImported = <<>>
    /\ rSubTypes = <<>>
    /\ content = <<>>
    /\ firstContent = <<>>

IdleCache ==
    /\ cNames = <<>>
    /\ cSubTypes = <<>>
    /\ cHaveConstants = FALSE
    /\ cCompatible = FALSE
    /\ mCache = <<>>
    /\ parserRuns = <<>>
    /\ site = "idle"
    /\ sidx = 1
    /\ ssub = 1
    /\ resolved = <<>>

IdlePath ==
    /\ pathMode = "NOT_NEEDED"
    /\ pathOut = <<>>
    /\ rootPath = <<>>
    /\ pathPc = "idle"
    /\ pathOpts = 0
    /\ backReads = <<>>

IdleTmpl ==
    /\ tNames = <<>>
    /\ tIdx = 1
    /\ tOut = <<>>
    /\ tpc = "idle"

IdleDetail ==
    /\ IdleRegen
    /\ IdleCache
    /\ IdlePath
    /\ IdleTmpl

IdleCompat ==
    /\ imports = <<>>
    /\ incompat = {}
    /\ seed = ""
    /\ todo = <<>>
    /\ seen = {}
    /\ cpc = "idle"
    /\ cerr = OK
    /\ compatible = "unset"
    /\ pushCount = <<>>
    /\ popped = <<>>

----------------------------------------------------------------------------
(* generateSourcesForFile *)

\* The unit generateSourcesForFile parses for fqName: the types unit of the
\* package for a "types."-prefixed name, fqName itself otherwise.
ParsedFor(fq) ==
    IF StartsWithTypesDot(fq.name) THEN getTypesForPackage(fq) ELSE fq

\* The outcome of generateSourcesForFile(fqName, ..., l): its status, and
\* whether AST::generate*(outputDir) ran (it is what writes the unit's files).
\* "CHECK" is the process aborting in a failed CHECK.
generateSourcesForFile(fq, l) ==
    IF ~isFullyQualified(fq) THEN [err |-> "CHECK", ran |-> FALSE]
    ELSE IF StartsWithTypesDot(fq.name) /\ l # "java" THEN [err |-> "CHECK", ran |-> FALSE]
    ELSE IF ~parse(ParsedFor(fq)) THEN [err |-> UNKNOWN_ERROR, ran |-> FALSE]
    ELSE IF l = "check" THEN [err |-> OK, ran |-> FALSE]
    ELSE IF l \in {"c++", "java"}
         THEN [err |-> IF <<ParsedFor(fq).package, ParsedFor(fq).name[1]>> \in genFail
                       THEN UNKNOWN_ERROR ELSE OK,
               ran |-> TRUE]
    ELSE [err |-> UNKNOWN_ERROR, ran |-> FALSE]

\* The state after one call of generateSourcesForFile(fq, ..., lang) made for
\* request argi; status is its return value.  A generator that fails may or
\* may not have created its file before failing (leftOver).
CallGenerateSourcesForFile(fq, leftOver) ==
    LET r == generateSourcesForFile(fq, lang) IN
    /\ genCalls' = Append(genCalls, <<argi, fq>>)
    /\ parseLog' = IF isFullyQualified(fq) /\ ~(StartsWithTypesDot(fq.name) /\ lang # "java")
                   THEN Append(parseLog, <<argi, ParsedFor(fq)>>)
                   ELSE parseLog
    /\ files' = IF r.ran /\ (r.err = OK \/ leftOver)
                THEN files \cup {[req |-> argi, unit |-> fq]}
                ELSE files
    /\ err' = r.err

----------------------------------------------------------------------------
(* main: the loop over the requested names (lines 1705-1728) *)

\* What a validation mistake would do: every name is let through.
MainAcceptsAll(l, fq) == TRUE

\* The two tests a requested name passes before generate is called:
\* fqName.isValid() and outputFormat->validate(fqName, name()).
MainAccepts(l, fq) == isValid(fq) /\ validate(l, fq)

\* The variables of the other components, which main leaves alone.
otherThanMain == <<compatWorld, compatVars, pkgWorld, pkgVars, fmtVars, genVars, optVars, detailVars>>

\* i == argc: main returns 0.
MainReturn ==
    /\ pc = "main"
    /\ argi > Len(args)
    /\ pc' = "exit"
    /\ exitCode' = 0
    /\ UNCHANGED <<otherThanMain, worldVars, statuses, lang, args, argi, err, memberList, memberIdx,
                   genCalls, parseLog, genInvoked, files>>

\* FQName fqName(argv[i]); isValid; outputFormat->validate.
MainValidate ==
    /\ pc = "main"
    /\ argi <= Len(args)
    /\ IF ~MainAccepts(lang, args[argi])
       THEN pc' = "exit" /\ exitCode' = 1
       ELSE pc' = "generate" /\ exitCode' = exitCode
    /\ UNCHANGED <<otherThanMain, worldVars, statuses, lang, args, argi, err, memberList, memberIdx,
                   genCalls, parseLog, genInvoked, files>>

\* outputFormat->generate of a handler built by
\* generationFunctionForFileOrPackage, up to the first member of a package.
GenerateFileOrPackage ==
    /\ pc = "generate"
    /\ lang \in FanOutLangs
    /\ genInvoked' = Append(genInvoked, argi)
    /\ IF isFullyQualified(args[argi])
       THEN /\ \E leftOver \in BOOLEAN : CallGenerateSourcesForFile(args[argi], leftOver)
            /\ pc' = "returned"
            /\ UNCHANGED <<memberList, memberIdx>>
       ELSE LET fq == args[argi]
                e == appendPackageInterfacesToVector(fq.package)
                entryCheck == isValid(fq) /\ ~isFullyQualified(fq) /\ fq.name = <<>>
            IN
            /\ err' = IF entryCheck THEN e.err ELSE "CHECK"
            /\ memberList' = IF entryCheck THEN e.vec ELSE <<>>
            /\ memberIdx' = 1
            /\ pc' = IF err' # OK THEN "returned" ELSE "members"
            /\ UNCHANGED <<genCalls, parseLog, files>>
    /\ UNCHANGED <<otherThanMain, worldVars, statuses, lang, args, argi, exitCode>>

\* A loop that stops one member early.
LoopDoneOffByOne(idx, vec) == idx >= Len(vec)

\* The range-for over packageInterfaces has no member left.
LoopDone(idx, vec) == idx > Len(vec)

\* A loop that goes on after a failed member.
AbortsLoopNever(e) == FALSE

\* if (err != OK) return err;
AbortsLoop(e) == e # OK

\* generateSourcesForPackage: one round of the loop over packageInterfaces.
GenerateMember ==
    /\ pc = "members"
    /\ IF LoopDone(memberIdx, memberList)
       THEN /\ err' = OK
            /\ pc' = "returned"
            /\ UNCHANGED <<memberIdx, genCalls, parseLog, files>>
       ELSE /\ \E leftOver \in BOOLEAN :
                   CallGenerateSourcesForFile(memberList[memberIdx], leftOver)
            /\ pc' = IF AbortsLoop(err') THEN "returned" ELSE "members"
            /\ memberIdx' = IF AbortsLoop(err') THEN memberIdx ELSE memberIdx + 1
    /\ UNCHANGED <<otherThanMain, worldVars, statuses, lang, args, argi, memberList, genInvoked, exitCode>>

\* outputFormat->generate of export-header (generateExportHeaderForPackage).
GenerateExportHeader ==
    /\ pc = "generate"
    /\ lang = "export-header"
    /\ genInvoked' = Append(genInvoked, argi)
    /\ LET e == appendPackageInterfacesToVector(args[argi].package)
           \* the members parsed: up to and including the first that fails
           bad == {k \in 1..Len(e.vec) : ~parse(e.vec[k])}
           last == IF bad = {} THEN Len(e.vec)
                   ELSE CHOOSE k \in bad : \A j \in bad : k <= j
           anyExported == \E k \in 1..Len(e.vec) :
                              <<e.vec[k].package, e.vec[k].name[1]>> \in exported
       IN
       /\ parseLog' = parseLog \o [k \in 1..last |-> <<argi, e.vec[k]>>]
       /\ err' = IF e.err # OK THEN e.err
                 ELSE IF bad # {} THEN UNKNOWN_ERROR
                 ELSE IF ~anyExported THEN OK
                 ELSE IF openFail THEN UNKNOWN_ERROR
                 ELSE OK
       /\ files' = IF e.err = OK /\ bad = {} /\ anyExported /\ ~openFail
                   THEN files \cup {[req |-> argi, unit |-> args[argi]]}
                   ELSE files
    /\ pc' = "returned"
    /\ UNCHANGED <<otherThanMain, worldVars, statuses, lang, args, argi, memberList, memberIdx, genCalls,
                   exitCode>>

\* if (err != OK) exit(1); otherwise the next name.
MainAfterGenerate ==
    /\ pc = "returned"
    /\ IF err = "CHECK"
       THEN pc' = "exit" /\ exitCode' = "SIGABRT" /\ argi' = argi
       ELSE IF err # OK
       THEN pc' = "exit" /\ exitCode' = 1 /\ argi' = argi
       ELSE pc' = "main" /\ exitCode' = exitCode /\ argi' = argi + 1
    /\ statuses' = Append(statuses, err)
    /\ UNCHANGED <<otherThanMain, worldVars, lang, args, err, memberList, memberIdx,
                   genCalls, parseLog, genInvoked, files>>

----------------------------------------------------------------------------
(* The specification of main *)

\* The names a command line of the model may hold.
ArgNames ==
    { FQ(Pkg, Ver, <<>>),                  \* p@1.0
      FQ(Pkg, Ver, <<"IFoo">>),            \* p@1.0::IFoo
      FQ(Pkg, Ver, <<"types", "T">>),      \* p@1.0::types.T
      FQ(Pkg, Ver, <<"IFoo", "T">>),       \* p@1.0::IFoo.T
      FQ("", Ver, <<"IFoo">>),             \* @1.0::IFoo
      FQ("", "", <<"IFoo">>),              \* IFoo
      InvalidFQName }

\* The member lists a package of the model may have, in the enumeration's
\* (lexicographic) order.
MemberLists == { <<>>, <<"IFoo">>, <<"IFoo", "types">> }

\* Sequences over S of length 1 .. n.
SeqUpTo(S, n) == UNION { [1..k -> S] : k \in 1..n }

\* The units of package p that are members of list l.
UnitsOf(p, l) == { <<p, l[k]>> : k \in 1..Len(l) }

\* Sets of at most one element of S.
AtMostOne(S) == { {} } \cup { {x} : x \in S }

InitMain ==
    /\ lang \in Backends
    /\ args \in SeqUpTo(ArgNames, MaxArgs)
    /\ \E l \in MemberLists :
         /\ members = (Pkg :> l)
         /\ parseFail \in AtMostOne(UnitsOf(Pkg, l))
         /\ genFail \in AtMostOne(UnitsOf(Pkg, l))
         /\ exported \in IF lang = "export-header" THEN AtMostOne(UnitsOf(Pkg, l))
                         ELSE { {} }
    /\ enumErr \in [{Pkg} -> {OK, ENUM_ERROR}]
    /\ openFail \in IF lang = "export-header" THEN BOOLEAN ELSE {FALSE}
    /\ argi = 1
    /\ pc = "main"
    /\ err = OK
    /\ memberList = <<>>
    /\ memberIdx = 1
    /\ genCalls = <<>>
    /\ parseLog = <<>>
    /\ genInvoked = <<>>
    /\ files = {}
    /\ exitCode = "running"
    /\ statuses = <<>>
    /\ IdleCompat
    /\ IdlePkg
    /\ IdleFmt
    /\ IdleGen
    /\ IdleOpt
    /\ IdleDetail

NextMain ==
    \/ MainValidate
    \/ GenerateFileOrPackage
    \/ GenerateMember
    \/ GenerateExportHeader
    \/ MainAfterGenerate
    \/ MainReturn

Init == InitMain
Next == NextMain
Spec == Init /\ [][Next]_vars

----------------------------------------------------------------------------
(* Claims about main and the fan-out (checked under Spec) *)

\* The fqNames generateSourcesForFile was called with for request r, in order.
CallsOf(r) ==
    LET mine == SelectSeq(genCalls, LAMBDA c : c[1] = r)
    IN [k \in 1..Len(mine) |-> mine[k][2]]

\* The units Coordinator::parse was called with for request r, in order.
ParsesOf(r) ==
    LET mine == SelectSeq(parseLog, LAMBDA c : c[1] = r)
    IN [k \in 1..Len(mine) |-> mine[k][2]]

\* generate was called for request r.
Invoked(r) == \E k \in 1..Len(genInvoked) : genInvoked[k] = r

\* The members the enumeration returns for the package of request r.
VecOf(r) == appendPackageInterfacesToVector(args[r].package).vec

\* The position of the first member of vec whose per-unit generation fails,
\* 0 when none fails.
FirstFailing(vec) ==
    LET bad == {k \in 1..Len(vec) : generateSourcesForFile(vec[k], lang).err # OK}
    IN IF bad = {} THEN 0 ELSE CHOOSE k \in bad : \A j \in bad : k <= j

\* generate has returned for the fan-out request argi.
FanOutReturned ==
    /\ pc \in {"returned", "exit"}
    /\ lang \in FanOutLangs
    /\ argi <= Len(args)
    /\ Invoked(argi)

\* C1: a handler built by generationFunctionForFileOrPackage calls per-unit
\* generation exactly once, with the requested name, when that name is fully
\* qualified; for a bare package it calls it once per member of the
\* enumeration, in the enumeration's order, when no member fails.
C1_FanOutCallsEachMemberOnceInOrder ==
    FanOutReturned =>
        IF isFullyQualified(args[argi])
        THEN CallsOf(argi) = <<args[argi]>>
        ELSE err = OK => CallsOf(argi) = VecOf(argi)

\* A package of two members has been generated member by member, as the
\* second request of the invocation.
C1_Witness ==
    /\ FanOutReturned
    /\ pc = "returned"
    /\ err = OK
    /\ argi = 2
    /\ ~isFullyQualified(args[argi])
    /\ Len(CallsOf(argi)) = 2
    /\ lang = "c++"

\* C2: when member k of a package fails, the fan-out returns k's status, no
\* member after k has been parsed or generated, the outputs of the members
\* before k are still there, and the process exits with 1.
C2_FailFastNoRollback ==
    (FanOutReturned /\ ~isFullyQualified(args[argi])
        /\ appendPackageInterfacesToVector(args[argi].package).err = OK
        /\ FirstFailing(VecOf(argi)) # 0) =>
      LET vec == VecOf(argi)
          k == FirstFailing(vec)
      IN /\ err = generateSourcesForFile(vec[k], lang).err
         /\ CallsOf(argi) = SubSeq(vec, 1, k)
         /\ ParsesOf(argi) = SubSeq(vec, 1, k)
         /\ \A j \in 1..(k-1) :
               lang # "check" => [req |-> argi, unit |-> vec[j]] \in files
         /\ pc = "exit" => exitCode = 1

\* The second member of a package failed after the first one was written,
\* and the process has exited.
C2_Witness ==
    /\ FanOutReturned
    /\ pc = "exit"
    /\ ~isFullyQualified(args[argi])
    /\ FirstFailing(VecOf(argi)) = 2
    /\ Len(CallsOf(argi)) = 2
    /\ [req |-> argi, unit |-> VecOf(argi)[1]] \in files

\* The process has exited because validate returned false for name argi.
ValidationFailed ==
    /\ pc = "exit"
    /\ argi <= Len(args)
    /\ isValid(args[argi])
    /\ ~validate(lang, args[argi])

\* C3 as stated: in any invocation, of one or several names, when validate
\* returns false for a name the process exits having created no output file.
C3_Original_NoFileAtAllAfterValidationFailure ==
    ValidationFailed => files = {}

\* C3 as amended: validation of a name runs before generate is called for it;
\* when validate returns false for name i the process exits with 1 without
\* having called generate for name i or a later one, so every output file
\* belongs to a name before i that passed validation (none when i is the
\* first name).
C3_ValidationBeforeOutputPerName ==
    /\ \A f \in files : Invoked(f.req)
    /\ \A r \in 1..Len(args) :
          Invoked(r) => isValid(args[r]) /\ validate(lang, args[r])
    /\ ValidationFailed =>
          /\ exitCode = 1
          /\ \A f \in files : f.req < argi
          /\ \A r \in argi..Len(args) : ~Invoked(r)
          /\ argi = 1 => files = {}

\* The second name failed validation after the first was generated.
C3_Witness ==
    /\ ValidationFailed
    /\ argi = 2
    /\ files # {}

\* C23: validateForSource accepts a name exactly when its package and its
\* version are not empty and its name part is empty, has no '.', or begins
\* with "types." while the handler is "java"; generateSourcesForFile is
\* entered with a "types."-prefixed name only when the handler is "java",
\* no CHECK fails, and a package-only handler is entered only with a valid
\* name that has a package, a version and no name part.
C23_ValidatedNamesPassTheChecks ==
    /\ \A r \in 1..Len(args) :
          (isValid(args[r]) /\ lang \in FanOutLangs) =>
            (validateForSource(args[r], lang) <=>
               /\ args[r].package # ""
               /\ args[r].version # ""
               /\ \/ args[r].name = <<>>
                  \/ HasNoDot(args[r].name)
                  \/ (StartsWithTypesDot(args[r].name) /\ lang = "java"))
    /\ \A k \in 1..Len(genCalls) :
          StartsWithTypesDot(genCalls[k][2].name) => lang = "java"
    /\ err # "CHECK"
    /\ \A r \in 1..Len(args) :
          (lang \in PackageLangs /\ Invoked(r)) =>
            /\ isValid(args[r])
            /\ ~isFullyQualified(args[r])
            /\ args[r].name = <<>>

\* The java handler has generated p@1.0::types.T, for which it parsed the
\* types unit of the package, after it had generated the package.
C23_Witness ==
    /\ lang = "java"
    /\ pc = "returned"
    /\ err = OK
    /\ argi = 2
    /\ args[2] = FQ(Pkg, Ver, <<"types", "T">>)
    /\ args[1] = FQ(Pkg, Ver, <<>>)
    /\ genCalls[Len(genCalls)] = <<2, args[2]>>

\* C4: a package-only handler calls generate only for a name with a package,
\* a version and an empty name part, and rejects no such name; for a fully
\* qualified name it exits with 1, generate is not called and no output file
\* is created for it (no file at all when it is the first name).
C4_PackageOnlyBackendRejectsFullName ==
    lang \in PackageLangs =>
      /\ \A r \in 1..Len(args) :
            Invoked(r) => /\ args[r].package # ""
                          /\ args[r].version # ""
                          /\ args[r].name = <<>>
      /\ \A r \in 1..Len(args) :
            (r < argi \/ (r = argi /\ pc = "returned")) => Invoked(r)
      /\ (pc = "exit" /\ argi <= Len(args) /\ ~Invoked(argi) /\ isValid(args[argi])) =>
            ~(args[argi].package # "" /\ args[argi].version # ""
                /\ args[argi].name = <<>>)
      /\ (pc = "exit" /\ argi <= Len(args) /\ isFullyQualified(args[argi])) =>
            /\ exitCode = 1
            /\ ~Invoked(argi)
            /\ \A f \in files : f.req # argi
            /\ argi = 1 => files = {}

\* export-header was given a package, which it generated, and then a fully
\* qualified name, which it rejected.
C4_Witness ==
    /\ lang = "export-header"
    /\ pc = "exit"
    /\ argi = 2
    /\ Len(args) >= 2
    /\ isFullyQualified(args[argi])
    /\ Invoked(1)
    /\ files # {}

----------------------------------------------------------------------------
(* isPackageJavaCompatible (lines 347-406) *)

\* The largest number of packages one unit imports.
MaxImports == 2

\* The packages of the model, in the order of FQName's operator<, which is
\* the order a std::set<FQName> is walked in.
PkgOrder == <<"A", "B", "C">>
CompatPkgs == {PkgOrder[k] : k \in 1..Len(PkgOrder)}

\* The members of each package, in the enumeration's (lexicographic) order.
CompatMembers == ("A" :> <<"IFoo">>) @@ ("B" :> <<"IBar", "IFoo">>) @@ ("C" :> <<"types">>)

\* The packages the question is asked about.
SeedPkgs == {"A", "B"}

\* Every unit of the model.
AllUnits == UNION { {Unit(p, members[p][k]) : k \in 1..Len(members[p])}
                    : p \in DOMAIN members }

\* ast->getImportedPackages(&importedPackages), as the range-for walks the set.
importedPackagesOf(u) == SelectSeq(PkgOrder, LAMBDA q : q \in imports[u])

\* ast->isJavaCompatible()
isJavaCompatible(u) == u \notin incompat

\* A membership test that never finds a unit.
AlreadySeenNever(iface, s) == FALSE

\* seen.find(iface) != seen.end()
AlreadySeen(iface, s) == iface \in s

\* The loop over packageInterfaces (lines 393-400): every unit of vec that
\* was not seen is pushed at the back of the worklist and marked seen.
\* st is [todo, seen, pushes, err].
RECURSIVE PushUnseen(_, _)
PushUnseen(vec, st) ==
    IF vec = <<>> THEN st
    ELSE LET iface == Head(vec) IN
         IF AlreadySeen(iface, st.seen)
         THEN PushUnseen(Tail(vec), st)
         ELSE PushUnseen(Tail(vec),
                         [st EXCEPT !.todo = Append(@, iface),
                                    !.seen = @ \cup {iface},
                                    !.pushes = [@ EXCEPT ![iface] = @ + 1]])

\* A loop over the imported packages that forgets to follow them.
RECURSIVE PushNoImports(_, _)
PushNoImports(pkgs, st) == st

\* The loop over importedPackages (lines 384-401): each package is
\* enumerated and its unseen units are pushed; the first enumeration that
\* fails ends the function with its status.
RECURSIVE PushImports(_, _)
PushImports(pkgs, st) ==
    IF pkgs = <<>> THEN st
    ELSE LET e == appendPackageInterfacesToVector(Head(pkgs)) IN
         IF e.err # OK THEN [st EXCEPT !.err = e.err]
         ELSE PushImports(Tail(pkgs), PushUnseen(e.vec, st))

\* A test that looks at the units of the asked package only.
StopsAtIncompatibleOwnOnly(u) == ~isJavaCompatible(u) /\ u.package = seed

\* if (!ast->isJavaCompatible()) { *compatible = false; return OK; }
StopsAtIncompatible(u) == ~isJavaCompatible(u)

\* What isPackageJavaCompatible leaves alone.
otherThanCompat == <<worldVars, mainVars, compatWorld, pkgWorld, pkgVars, fmtVars,
                     genVars, optVars, detailVars>>

\* Lines 351-362: the package's own units seed the worklist.
CompatStart ==
    /\ cpc = "start"
    /\ LET e == appendPackageInterfacesToVector(seed) IN
       IF e.err # OK
       THEN /\ cerr' = e.err
            /\ cpc' = "done"
            /\ UNCHANGED <<todo, seen, pushCount>>
       ELSE /\ todo' = e.vec
            /\ seen' = {e.vec[k] : k \in 1..Len(e.vec)}
            /\ pushCount' = [u \in AllUnits |->
                               Cardinality({k \in 1..Len(e.vec) : e.vec[k] = u})]
            /\ cpc' = "loop"
            /\ cerr' = cerr
    /\ UNCHANGED <<otherThanCompat, seed, compatible, popped>>

\* One round of while (!todo.empty()) (lines 366-402).
CompatStep ==
    /\ cpc = "loop"
    /\ todo # <<>>
    /\ LET fqName == todo[Len(todo)]
           rest == SubSeq(todo, 1, Len(todo) - 1)
       IN
       /\ popped' = Append(popped, fqName)
       /\ IF ~parse(fqName)
          THEN /\ cerr' = UNKNOWN_ERROR
               /\ cpc' = "done"
               /\ todo' = rest
               /\ UNCHANGED <<seen, pushCount, compatible>>
          ELSE IF StopsAtIncompatible(fqName)
          THEN /\ compatible' = "false"
               /\ cerr' = OK
               /\ cpc' = "done"
               /\ todo' = rest
               /\ UNCHANGED <<seen, pushCount>>
          ELSE LET st == PushImports(importedPackagesOf(fqName),
                                     [todo |-> rest, seen |-> seen,
                                      pushes |-> pushCount, err |-> OK])
               IN /\ todo' = st.todo
                  /\ seen' = st.seen
                  /\ pushCount' = st.pushes
                  /\ cerr' = st.err
                  /\ cpc' = IF st.err # OK THEN "done" ELSE "loop"
                  /\ compatible' = compatible
    /\ UNCHANGED <<otherThanCompat, seed>>

\* The worklist is empty: *compatible = true; return OK (lines 404-405).
CompatFinish ==
    /\ cpc = "loop"
    /\ todo = <<>>
    /\ compatible' = "true"
    /\ cerr' = OK
    /\ cpc' = "done"
    /\ UNCHANGED <<otherThanCompat, seed, todo, seen, pushCount, popped>>

\* Subsets of S with at most n elements.
SubsetsUpTo(S, n) == {T \in SUBSET S : Cardinality(T) <= n}

\* generateMakefileForPackage, the only caller, asks after it has enumerated
\* the package and parsed each of its members (lines 481-512): the seed's
\* enumeration succeeds and its own units parse.  A unit of another package
\* may fail to parse, and another package's enumeration may fail.
InitCompat ==
    /\ members = CompatMembers
    /\ seed \in SeedPkgs
    /\ imports \in [AllUnits -> SubsetsUpTo(CompatPkgs, MaxImports)]
    /\ incompat \in AtMostOne(AllUnits)
    /\ \E pf \in AtMostOne({u \in AllUnits : u.package # seed}),
          ef \in AtMostOne(CompatPkgs \ {seed}) :
         /\ pf = {} \/ ef = {}
         /\ parseFail = {<<u.package, u.name[1]>> : u \in pf}
         /\ enumErr = [q \in CompatPkgs |-> IF q \in ef THEN ENUM_ERROR ELSE OK]
    /\ todo = <<>>
    /\ seen = {}
    /\ cpc = "start"
    /\ cerr = OK
    /\ compatible = "unset"
    /\ pushCount = [u \in AllUnits |-> 0]
    /\ popped = <<>>
    /\ IdleMain
    /\ IdlePkg
    /\ IdleFmt
    /\ IdleGen
    /\ IdleOpt
    /\ IdleDetail

NextCompat ==
    \/ CompatStart
    \/ CompatStep
    \/ CompatFinish

SpecCompat == InitCompat /\ [][NextCompat]_vars

----------------------------------------------------------------------------
(* Claims about isPackageJavaCompatible (checked under SpecCompat) *)

\* The units of package q: those its enumeration returns.
MembersOf(q) ==
    LET vec == appendPackageInterfacesToVector(q).vec
    IN {vec[k] : k \in 1..Len(vec)}

\* The packages one import hop away from a package of R.  Only a unit that
\* parses has an AST, and so imports.
ImportedBy(R) ==
    UNION { imports[u] : u \in {v \in UNION { MembersOf(q) : q \in R } : parse(v)} }

\* A unit whose AST says it is not Java compatible.
Incompatible(u) == parse(u) /\ ~isJavaCompatible(u)

\* The packages within n import hops of the packages R.
RECURSIVE WithinHops(_, _)
WithinHops(R, n) == IF n = 0 THEN R ELSE WithinHops(R \cup ImportedBy(R), n - 1)

\* The packages reachable from the seed over imports, and their units.
ReachPkgs == WithinHops({seed}, Cardinality(CompatPkgs))
ReachUnits == UNION { MembersOf(q) : q \in ReachPkgs }

\* The units exactly n import hops away from the seed package.
UnitsAtHop(n) ==
    UNION { MembersOf(q) : q \in WithinHops({seed}, n) } \
    (IF n = 0 THEN {} ELSE UNION { MembersOf(q) : q \in WithinHops({seed}, n - 1) })

\* No parse and no enumeration of a reachable package fails.
NoReachableFailure ==
    /\ \A u \in ReachUnits : parse(u)
    /\ \A q \in ReachPkgs : enumErr[q] = OK

CompatDone == cpc = "done"

\* C5: when isPackageJavaCompatible returns OK, *compatible is true iff every
\* unit of the package and of the packages reachable over imports is Java
\* compatible; and it does return OK when every reachable unit parses and
\* every reachable package can be enumerated.
C5_CompatibleIffAllReachableUnitsCompatible ==
    CompatDone =>
      /\ cerr = OK => compatible = (IF \E u \in ReachUnits : Incompatible(u)
                                     THEN "false" ELSE "true")
      /\ NoReachableFailure => cerr = OK

\* The only incompatible unit is two import hops from the seed package and
\* the function reported "not compatible".
C5_Witness ==
    /\ CompatDone
    /\ cerr = OK
    /\ compatible = "false"
    /\ \E u \in UnitsAtHop(2) : incompat = {u} /\ Incompatible(u)

\* C6 as stated: once a reachable unit is incompatible the result is "not
\* compatible", whatever the order of enumeration.
C6_Original_AlwaysNotCompatible ==
    (CompatDone /\ \E u \in ReachUnits : Incompatible(u)) =>
        cerr = OK /\ compatible = "false"

\* C6 as amended: once a reachable unit is incompatible the function never
\* reports "compatible": it reports "not compatible", or it returns the
\* error of a parse or enumeration that failed first and assigns nothing;
\* when no reachable parse or enumeration fails the result is "not
\* compatible" wherever the incompatible unit stands in the enumeration.
C6_IncompatibleNeverReportedCompatible ==
    (CompatDone /\ \E u \in ReachUnits : Incompatible(u)) =>
      /\ compatible # "true"
      /\ cerr = OK => compatible = "false"
      /\ cerr # OK => compatible = "unset"
      /\ NoReachableFailure => (cerr = OK /\ compatible = "false")

\* The incompatible unit stands first in its package's enumeration, so it
\* is taken from the worklist last, after two compatible units of which one
\* imports the seed package again; the function reported "not compatible".
C6_Witness ==
    /\ CompatDone
    /\ cerr = OK
    /\ compatible = "false"
    /\ seed = "B"
    /\ incompat = {Unit("B", "IBar")}
    /\ imports[Unit("B", "IFoo")] = {"B", "C"}
    /\ "B" \in imports[Unit("C", "types")]
    /\ Len(popped) = 3

\* C7: every unit is put on the worklist at most once, so the loop ends
\* after at most one round per unit; until the function has returned a next
\* step exists; and when it reports "compatible" the units it visited are
\* exactly the units of the packages reachable from the seed.
C7_WorklistTerminatesAndVisitsClosure ==
    /\ cpc # "idle" =>
         /\ \A u \in AllUnits : pushCount[u] <= 1
         /\ Len(popped) <= Cardinality(AllUnits)
         /\ Len(popped) + Len(todo) <= Cardinality(seen)
         /\ ~CompatDone => ENABLED NextCompat
    /\ (CompatDone /\ cerr = OK /\ compatible = "true") =>
         {popped[k] : k \in 1..Len(popped)} = ReachUnits
    /\ (CompatDone /\ NoReachableFailure /\ ~\E u \in ReachUnits : Incompatible(u)) =>
         (cerr = OK /\ compatible = "true")

\* The package cycle A -> B -> C -> A was walked to the end and all four
\* units were visited.
C7_Witness ==
    /\ CompatDone
    /\ cerr = OK
    /\ compatible = "true"
    /\ seed = "A"
    /\ \A u \in MembersOf("A") : imports[u] = {"B"}
    /\ \A u \in MembersOf("B") : imports[u] = {"C"}
    /\ \A u \in MembersOf("C") : imports[u] = {"A"}
    /\ {popped[k] : k \in 1..Len(popped)} = AllUnits

----------------------------------------------------------------------------
(* packageNeedsJavaCode, isTypesOnlyPackage and the two package-level      *)
(* generators that call them                                               *)

\* The largest number of types declared in types.hal's root scope.
MaxSubTypes == 2

\* The package the generator is asked for, and the package it may import.
GenPkg == "A"
DepPkg == "B"

\* isHidlTransportPackage: the package is android.hidl.base or
\* android.hidl.manager.
isHidlTransportPackage(kind) == kind = "transport"

\* isSystemPackage: the package lies in android.hidl, android.system,
\* android.frameworks or android.hardware; the transport packages do.
isSystemPackage(kind) == kind \in {"transport", "system"}

\* packageInterfaces[0].name() as the build can read it.  On an empty vector
\* the read is out of bounds: it faults, or yields whatever lies there.
ReadElementZero(vec) ==
    IF Len(vec) >= 1
    THEN {[fault |-> FALSE, name |-> vec[1].name]}
    ELSE {[fault |-> TRUE, name |-> <<>>],
          [fault |-> FALSE, name |-> <<"types">>],
          [fault |-> FALSE, name |-> <<>>]}

\* The rest of packageNeedsJavaCode once the name of element 0 is read
\* (lines 412-431).
NeedsJavaAfterRead(r, ast) ==
    IF r.fault THEN "SIGSEGV"
    ELSE IF r.name # <<"types">> THEN "true"
    ELSE IF ast.null THEN "SIGABRT"
    ELSE IF \E k \in 1..Len(ast.subTypes) : ~ast.subTypes[k] THEN "true"
    ELSE "false"

\* packageNeedsJavaCode: the ways the call can end, "true" or "false" for a
\* return, "SIGABRT" for the failed CHECK, "SIGSEGV" for a faulting read.
packageNeedsJavaCode(vec, ast) ==
    IF Len(vec) > 1 THEN {"true"}
    ELSE { NeedsJavaAfterRead(r, ast) : r \in ReadElementZero(vec) }

\* A variant that wants at least one member.
isTypesOnlyPackageNonEmpty(package) ==
    LET e == appendPackageInterfacesToVector(package) IN
    IF e.err # OK THEN [package |-> package, err |-> e.err, result |-> FALSE]
    ELSE [package |-> package, err |-> OK,
          result |-> /\ Len(e.vec) > 0
                     /\ ~\E k \in 1..Len(e.vec) : e.vec[k].name # <<"types">>]

\* isTypesOnlyPackage: the status returned and the value stored in *result.
isTypesOnlyPackage(package) ==
    LET e == appendPackageInterfacesToVector(package) IN
    IF e.err # OK THEN [package |-> package, err |-> e.err, result |-> FALSE]
    ELSE LET hasInterface == \E k \in 1..Len(e.vec) : e.vec[k].name # <<"types">>
         IN [package |-> package, err |-> OK, result |-> ~hasInterface]

\* The loops over packageInterfaces of both generators (lines 495-512 and
\* 895-913): the first unit that does not parse, 0 when all parse.
FirstUnparsed(vec) ==
    IF \E k \in 1..Len(vec) : ~parse(vec[k])
    THEN CHOOSE k \in 1..Len(vec) : ~parse(vec[k]) /\ \A j \in 1..(k - 1) : parse(vec[j])
    ELSE 0

\* typesAST after the loop: the AST of the member named "types", if any.
TypesASTOf(vec) ==
    IF \E k \in 1..Len(vec) : vec[k].name = <<"types">> THEN AST(subTypes) ELSE NullAST

\* The set the loop collects with getImportedPackages(Hierarchy).
ImportedPackagesOf(vec) == UNION { imports[vec[k]] : k \in 1..Len(vec) }

\* What the two generators leave alone.
otherThanPkg == <<worldVars, mainVars, compatWorld, pkgWorld, op, fmtVars, genVars,
                  optVars, detailVars>>

\* generateMakefileForPackage up to its call of isPackageJavaCompatible
\* (lines 481-516): the enumeration and the parse of every member.
MakefileStart ==
    /\ op = "makefile"
    /\ ppc = "start"
    /\ LET e == appendPackageInterfacesToVector(GenPkg) IN
       IF e.err # OK
       THEN /\ perr' = e.err
            /\ ppc' = "returned"
            /\ UNCHANGED <<packageInterfaces, typesAST, importedPackages, seed, cpc>>
       ELSE /\ packageInterfaces' = e.vec
            /\ IF FirstUnparsed(e.vec) # 0
               THEN /\ perr' = UNKNOWN_ERROR
                    /\ ppc' = "returned"
                    /\ typesAST' = TypesASTOf(SubSeq(e.vec, 1, FirstUnparsed(e.vec) - 1))
                    /\ importedPackages' =
                           ImportedPackagesOf(SubSeq(e.vec, 1, FirstUnparsed(e.vec) - 1))
                    /\ UNCHANGED <<seed, cpc>>
               ELSE /\ typesAST' = TypesASTOf(e.vec)
                    /\ importedPackages' = ImportedPackagesOf(e.vec)
                    /\ seed' = GenPkg
                    /\ cpc' = "start"
                    /\ ppc' = "compat"
                    /\ perr' = perr
    /\ UNCHANGED <<otherThanPkg, todo, seen, cerr, compatible, pushCount, popped,
                   needsJava, typesOnlyLog, sections, outFile, helperDeps>>

\* The sections of Android.mk (lines 543-619).
MakefileSections(packageIsJavaCompatible, haveJavaConstants) ==
    <<"header">>
    \o (IF packageIsJavaCompatible THEN <<"java">> ELSE <<>>)
    \o (IF haveJavaConstants THEN <<"java-constants">> ELSE <<>>)
    \o <<"subdirs">>

\* generateMakefileForPackage after isPackageJavaCompatible has returned
\* (lines 517-621).
MakefileFinish ==
    /\ op = "makefile"
    /\ ppc = "compat"
    /\ cpc = "done"
    /\ LET haveJavaConstants ==
               \E k \in 1..Len(packageInterfaces) :
                   <<packageInterfaces[k].package, packageInterfaces[k].name[1]>>
                       \in exported
       IN
       IF cerr # OK
       THEN /\ perr' = cerr
            /\ ppc' = "returned"
            /\ UNCHANGED <<needsJava, sections, outFile>>
       ELSE IF compatible = "false" /\ ~haveJavaConstants
       THEN /\ perr' = OK
            /\ ppc' = "returned"
            /\ UNCHANGED <<needsJava, sections, outFile>>
       ELSE \E outcome \in packageNeedsJavaCode(packageInterfaces, typesAST) :
            /\ needsJava' = outcome
            /\ IF outcome \in {"SIGSEGV", "SIGABRT"}
               THEN /\ ppc' = outcome
                    /\ UNCHANGED <<perr, sections, outFile>>
               ELSE IF outcome = "false"
               THEN /\ perr' = OK
                    /\ ppc' = "returned"
                    /\ UNCHANGED <<sections, outFile>>
               ELSE IF openFail
               THEN /\ perr' = UNKNOWN_ERROR
                    /\ ppc' = "returned"
                    /\ UNCHANGED <<sections, outFile>>
               ELSE /\ outFile' = "Android.mk"
                    /\ sections' = MakefileSections(compatible = "true", haveJavaConstants)
                    /\ perr' = OK
                    /\ ppc' = "returned"
    /\ UNCHANGED <<otherThanPkg, compatVars, packageInterfaces, typesAST, importedPackages,
                   typesOnlyLog, helperDeps>>

\* generateAndroidBpForPackage up to the creation of Android.bp (lines
\* 881-919): the enumeration, the parse of every member, getFormatter.
AndroidBpStart ==
    /\ op = "androidbp"
    /\ ppc = "start"
    /\ LET e == appendPackageInterfacesToVector(GenPkg) IN
       IF e.err # OK
       THEN /\ perr' = e.err
            /\ ppc' = "returned"
            /\ UNCHANGED <<packageInterfaces, typesAST, importedPackages, outFile>>
       ELSE /\ packageInterfaces' = e.vec
            /\ IF FirstUnparsed(e.vec) # 0
               THEN /\ perr' = UNKNOWN_ERROR
                    /\ ppc' = "returned"
                    /\ typesAST' = TypesASTOf(SubSeq(e.vec, 1, FirstUnparsed(e.vec) - 1))
                    /\ importedPackages' =
                           ImportedPackagesOf(SubSeq(e.vec, 1, FirstUnparsed(e.vec) - 1))
                    /\ outFile' = outFile
               ELSE /\ typesAST' = TypesASTOf(e.vec)
                    /\ importedPackages' = ImportedPackagesOf(e.vec)
                    /\ IF openFail
                       THEN /\ perr' = UNKNOWN_ERROR
                            /\ ppc' = "returned"
                            /\ outFile' = outFile
                       ELSE /\ outFile' = "Android.bp"
                            /\ ppc' = "body"
                            /\ perr' = perr
    /\ UNCHANGED <<otherThanPkg, compatVars, needsJava, typesOnlyLog, sections, helperDeps>>

\* The sections written before the adapter's (lines 928-1030).
LibrarySections(kind) ==
    <<"header", "filegroup", "c++-sources", "c++-headers">>
    \o (IF isHidlTransportPackage(kind) THEN <<"transport-comment">>
        ELSE <<"lib">> \o (IF ~isSystemPackage(kind) THEN <<"lib_vendor">> ELSE <<>>))

AndroidBpLibrary ==
    /\ op = "androidbp"
    /\ ppc = "body"
    /\ sections' = sections \o LibrarySections(pkgKind)
    /\ ppc' = "typesOnly"
    /\ UNCHANGED <<otherThanPkg, compatVars, perr, packageInterfaces, typesAST,
                   importedPackages, needsJava, typesOnlyLog, outFile, helperDeps>>

\* Lines 1032-1038: a package of types only gets no adapter.
AndroidBpTypesOnly ==
    /\ op = "androidbp"
    /\ ppc = "typesOnly"
    /\ LET r == isTypesOnlyPackage(GenPkg) IN
       /\ typesOnlyLog' = Append(typesOnlyLog, r)
       /\ IF r.err # OK
          THEN perr' = r.err /\ ppc' = "returned"
          ELSE IF r.result
          THEN perr' = OK /\ ppc' = "returned"
          ELSE perr' = perr /\ ppc' = "adapter"
    /\ UNCHANGED <<otherThanPkg, compatVars, packageInterfaces, typesAST, importedPackages,
                   needsJava, sections, outFile, helperDeps>>

\* The lambda handed to generateAndroidBpLibSection (lines 1091-1113), over
\* the imported packages in the set's order.  st is [err, deps, log].
RECURSIVE AdapterHelperDeps(_, _)
AdapterHelperDeps(pkgs, st) ==
    IF pkgs = <<>> THEN st
    ELSE IF Head(pkgs) = GenPkg THEN AdapterHelperDeps(Tail(pkgs), st)
    ELSE LET r == isTypesOnlyPackage(Head(pkgs))
             logged == [st EXCEPT !.log = Append(@, r), !.err = r.err]
         IN IF r.err # OK THEN logged
            ELSE IF r.result THEN AdapterHelperDeps(Tail(pkgs), logged)
            ELSE AdapterHelperDeps(Tail(pkgs),
                                   [logged EXCEPT !.deps = Append(@, Head(pkgs))])

\* The adapter's sections (lines 1040-1146).  generateAndroidBpLibSection
\* calls the lambda twice, for shared_libs and for export_shared_lib_headers
\* (lines 785 and 796), and writes the helper library's section to its end
\* even when the lambda stopped at an error.
AndroidBpAdapter ==
    /\ op = "androidbp"
    /\ ppc = "adapter"
    /\ LET pkgs == SelectSeq(PkgOrder, LAMBDA q : q \in importedPackages)
           first == AdapterHelperDeps(pkgs, [err |-> OK, deps |-> <<>>,
                                             log |-> typesOnlyLog])
           st == AdapterHelperDeps(pkgs, first)
           upToHelper == sections \o <<"c++-adapter-sources", "c++-adapter-headers",
                                       "adapter-helper-lib">>
       IN
       /\ typesOnlyLog' = st.log
       /\ helperDeps' = st.deps
       /\ perr' = st.err
       /\ sections' = IF st.err # OK THEN upToHelper
                      ELSE upToHelper \o <<"adapter-genrule", "adapter-cc_test">>
       /\ ppc' = "returned"
    /\ UNCHANGED <<otherThanPkg, compatVars, packageInterfaces, typesAST, importedPackages,
                   needsJava, outFile>>

PkgMemberLists == {<<>>, <<"types">>, <<"IFoo">>, <<"IFoo", "types">>}
DepMemberLists == {<<"types">>, <<"IBar">>}
PkgKinds == {"transport", "system", "other"}

\* The state at the call of one of the two generators.  The answers that
\* only the other generator reads are held fixed.
InitPkg ==
    /\ op \in {"makefile", "androidbp"}
    /\ \E l \in PkgMemberLists, dl \in DepMemberLists :
         members = (GenPkg :> l) @@ (DepPkg :> dl)
    /\ \E ef \in AtMostOne({GenPkg, DepPkg}) :
         enumErr = [q \in {GenPkg, DepPkg} |-> IF q \in ef THEN ENUM_ERROR ELSE OK]
    /\ parseFail \in AtMostOne(UnitsOf(GenPkg, members[GenPkg]))
    /\ imports \in {f \in [AllUnits -> {{}, {DepPkg}, {GenPkg, DepPkg}}] :
                      \A u \in AllUnits : u.package = DepPkg => f[u] = {}}
    /\ openFail \in BOOLEAN
    /\ IF op = "makefile"
       THEN /\ incompat \in AtMostOne(AllUnits)
            /\ exported \in AtMostOne(UnitsOf(GenPkg, members[GenPkg]))
            /\ subTypes \in { <<>> } \cup SeqUpTo(BOOLEAN, MaxSubTypes)
            /\ pkgKind = "other"
       ELSE /\ incompat = {}
            /\ exported = {}
            /\ subTypes = <<>>
            /\ pkgKind \in PkgKinds
    /\ genFail = {}
    /\ ppc = "start"
    /\ perr = OK
    /\ packageInterfaces = <<>>
    /\ typesAST = NullAST
    /\ importedPackages = {}
    /\ needsJava = "unset"
    /\ typesOnlyLog = <<>>
    /\ sections = <<>>
    /\ outFile = "none"
    /\ helperDeps = <<>>
    /\ lang = "check" /\ args = <<>> /\ argi = 1 /\ pc = "idle" /\ err = OK
    /\ memberList = <<>> /\ memberIdx = 1 /\ genCalls = <<>> /\ parseLog = <<>>
    /\ genInvoked = <<>> /\ files = {} /\ exitCode = "running"
    /\ statuses = <<>>
    /\ seed = "" /\ todo = <<>> /\ seen = {} /\ cpc = "idle" /\ cerr = OK
    /\ compatible = "unset" /\ pushCount = <<>> /\ popped = <<>>
    /\ IdleFmt
    /\ IdleGen
    /\ IdleOpt
    /\ IdleDetail

NextPkg ==
    \/ MakefileStart
    \/ CompatStart
    \/ CompatStep
    \/ CompatFinish
    \/ MakefileFinish
    \/ AndroidBpStart
    \/ AndroidBpLibrary
    \/ AndroidBpTypesOnly
    \/ AndroidBpAdapter

SpecPkg == InitPkg /\ [][NextPkg]_vars

----------------------------------------------------------------------------
(* Properties of SpecPkg *)

\* The package's only member is "types" and every type it declares is a
\* typedef.
AliasOnlyTypes ==
    /\ members[GenPkg] = <<"types">>
    /\ \A k \in 1..Len(subTypes) : subTypes[k]

\* packageNeedsJavaCode was called.
NeedsJavaEvaluated == needsJava # "unset"

\* C8 as stated: whenever packageNeedsJavaCode is evaluated it returns, and
\* it returns false exactly when the only member of the package is "types"
\* and every type declared in the types unit is a typedef, true otherwise.
C8_Original_FalseExactlyForAliasOnlyTypes ==
    NeedsJavaEvaluated =>
        needsJava = (IF AliasOnlyTypes THEN "false" ELSE "true")

\* C8, what holds: on a package with at least one member the call returns
\* false exactly for a sole "types" member declaring typedefs only, and true
\* otherwise.
C8_FalseExactlyForAliasOnlyTypesIfNonEmpty ==
    (NeedsJavaEvaluated /\ members[GenPkg] # <<>>) =>
        needsJava = (IF AliasOnlyTypes THEN "false" ELSE "true")

\* generateMakefileForPackage called packageNeedsJavaCode on a package whose
\* enumeration succeeded with no member, and the read of element 0 ended
\* the process.
C8_Witness ==
    /\ op = "makefile"
    /\ members[GenPkg] = <<>>
    /\ enumErr[GenPkg] = OK
    /\ compatible = "true"
    /\ needsJava \in {"SIGSEGV", "SIGABRT"}
    /\ ppc = needsJava
    /\ outFile = "none"

\* generateMakefileForPackage has ended after every enumeration and parse
\* succeeded, and the output file could be opened if it was asked for.
MakefileDecided ==
    /\ op = "makefile"
    /\ ppc \notin {"start", "compat"}
    /\ cpc = "done"
    /\ cerr = OK
    /\ ~openFail

\* C24 as stated: Android.mk is created exactly when the package is
\* Java-compatible or exports a type, and packageNeedsJavaCode is true;
\* otherwise the generator returns OK and creates no file.  When the file
\* is written it has the "-java" section exactly for a Java-compatible
\* package and the "-java-constants" section exactly when a type is
\* exported.
C24_Original_MakefileCreatedIffJavaCodeNeeded ==
    MakefileDecided =>
        /\ outFile = "Android.mk" <=>
               ((compatible = "true" \/ exported # {}) /\ needsJava = "true")
        /\ outFile # "Android.mk" => (ppc = "returned" /\ perr = OK)
        /\ outFile = "Android.mk" =>
               /\ (\E k \in 1..Len(sections) : sections[k] = "java")
                      <=> compatible = "true"
               /\ (\E k \in 1..Len(sections) : sections[k] = "java-constants")
                      <=> exported # {}

\* The generator was asked for a package without members: neither was a
\* file created nor OK returned, the process ended inside
\* packageNeedsJavaCode.
C24_Witness ==
    /\ MakefileDecided
    /\ members[GenPkg] = <<>>
    /\ compatible = "true"
    /\ exported = {}
    /\ outFile = "none"
    /\ ppc = "SIGSEGV"

\* C28 as stated: whenever packageNeedsJavaCode is evaluated the member
\* list is not empty, so that element 0 of an empty list is never read,
\* also for a package whose enumeration returns OK with no member; and the
\* CHECK of typesAST never fails.
C28_Original_ElementZeroReadOnlyOfNonEmptyList ==
    /\ NeedsJavaEvaluated => packageInterfaces # <<>>
    /\ ppc # "SIGABRT"

\* packageNeedsJavaCode was evaluated on the empty member list of a package
\* whose enumeration returned OK; the name it read there was "types", and
\* the CHECK of the null typesAST ended the process.
C28_Witness ==
    /\ op = "makefile"
    /\ enumErr[GenPkg] = OK
    /\ packageInterfaces = <<>>
    /\ NeedsJavaEvaluated
    /\ typesAST.null
    /\ ppc = "SIGABRT"

\* The sections of Android.bp that belong to the adapter.
AdapterSections ==
    {"c++-adapter-sources", "c++-adapter-headers", "adapter-helper-lib",
     "adapter-genrule", "adapter-cc_test"}

AdapterEmitted == \E k \in 1..Len(sections) : sections[k] \in AdapterSections

\* The package has no member other than "types".
NoMemberButTypes(q) == \A j \in 1..Len(members[q]) : members[q][j] = "types"

\* C9: every call of isTypesOnlyPackage sets its result to true iff the
\* enumeration of the package succeeds and no member other than "types"
\* exists, and returns the enumeration's error with result false when it
\* fails; generateAndroidBpForPackage writes the adapter sections only when
\* the call for its own package returned OK with result false, and then it
\* writes them.
C9_TypesOnlyResultAndAdapterSections ==
    /\ \A k \in 1..Len(typesOnlyLog) :
         LET r == typesOnlyLog[k] IN
         /\ r.result <=> (enumErr[r.package] = OK /\ NoMemberButTypes(r.package))
         /\ r.err = enumErr[r.package]
         /\ r.err # OK => ~r.result
    /\ AdapterEmitted =>
         /\ Len(typesOnlyLog) >= 1
         /\ typesOnlyLog[1] = [package |-> GenPkg, err |-> OK, result |-> FALSE]
    /\ (/\ op = "androidbp"
        /\ ppc = "returned"
        /\ Len(typesOnlyLog) >= 1
        /\ typesOnlyLog[1] = [package |-> GenPkg, err |-> OK, result |-> FALSE])
       => AdapterEmitted

\* The package has an interface, so its adapter sections were written; the
\* lambda asked about the imported package in each of its two calls, the
\* enumeration failed, and the error was returned with result false.
C9_Witness ==
    /\ op = "androidbp"
    /\ ppc = "returned"
    /\ Len(typesOnlyLog) = 3
    /\ typesOnlyLog[1] = [package |-> GenPkg, err |-> OK, result |-> FALSE]
    /\ typesOnlyLog[2] = [package |-> DepPkg, err |-> ENUM_ERROR, result |-> FALSE]
    /\ typesOnlyLog[3] = typesOnlyLog[2]
    /\ perr = ENUM_ERROR
    /\ AdapterEmitted

----------------------------------------------------------------------------
(* Formatter *)

\* The largest number of calls made on one Formatter.
MaxOps == 4
\* The largest indent depth the calls build up.
MaxDepth == 2

\* The number of spaces per indent level (4 * mIndentDepth).
IndentUnit == 4

\* std::string::npos, among 1-based positions.
NPOS == 0

\* std::string::find(pat, start) for a non-empty pat, 1-based.
Find(text, pat, start) ==
    LET hits == {i \in start..(Len(text) - Len(pat) + 1) :
                     SubSeq(text, i, i + Len(pat) - 1) = pat}
    IN IF hits = {} THEN NPOS ELSE CHOOSE i \in hits : \A j \in hits : i <= j

\* std::to_string(size_t)
Digit(d) == <<"0", "1", "2", "3", "4", "5", "6", "7", "8", "9">>[d + 1]
RECURSIVE to_string(_)
to_string(n) == IF n < 10 THEN <<Digit(n)>> ELSE to_string(n \div 10) \o <<Digit(n % 10)>>

\* fprintf(mFile, "%*s", width, ""): width spaces.
Pad(width) == [k \in 1..width |-> " "]

\* A filter that removes the first occurrence only.
RECURSIVE ElideFirstOnly(_, _)
ElideFirstOnly(text, space) ==
    IF Len(space) = 0 THEN text
    ELSE LET matchPos == Find(text, space, 1) IN
         IF matchPos = NPOS THEN text
         ELSE SubSeq(text, 1, matchPos - 1)
              \o SubSeq(text, matchPos + Len(space), Len(text))

\* What Formatter::output writes for text (lines 108-128): text with the
\* occurrences of space removed, found left to right, each search resuming
\* behind the last match; text itself when space is empty.
RECURSIVE Elide(_, _)
Elide(text, space) ==
    IF Len(space) = 0 THEN text
    ELSE LET matchPos == Find(text, space, 1) IN
         IF matchPos = NPOS THEN text
         ELSE SubSeq(text, 1, matchPos - 1)
              \o Elide(SubSeq(text, matchPos + Len(space), Len(text)), space)

output(text) == Elide(text, mSpace)

\* A test that asks for the prefix at every write.
NeedsPrefixAlways(atStartOfLine) == TRUE

\* if (mAtStartOfLine)
NeedsPrefix(atStartOfLine) == atStartOfLine

\* The two fprintf of lines 71-72 and 85-86: the line prefix, then the
\* indentation.
PrefixAndIndent(atStartOfLine) ==
    IF NeedsPrefix(atStartOfLine)
    THEN mLinePrefix \o Pad(IndentUnit * mIndentDepth)
    ELSE <<>>

\* A write that does not split its text: one prefix at most, then the text.
RECURSIVE WriteLoopNoSplit(_, _, _)
WriteLoopNoSplit(out, start, st) ==
    IF ~(start <= Len(out)) THEN st
    ELSE [sink |-> st.sink \o PrefixAndIndent(st.atStart) \o output(out),
          atStart |-> out[Len(out)] = "\n"]

\* A loop that leaves mAtStartOfLine as it was when the text ends without
\* a newline.
RECURSIVE WriteLoopStaysAtStart(_, _, _)
WriteLoopStaysAtStart(out, start, st) ==
    IF ~(start <= Len(out)) THEN st
    ELSE LET pos == Find(out, <<"\n">>, start) IN
         IF pos = NPOS
         THEN [sink |-> st.sink \o PrefixAndIndent(st.atStart)
                                \o output(SubSeq(out, start, Len(out))),
               atStart |-> st.atStart]
         ELSE IF pos = start
         THEN WriteLoopStaysAtStart(out, pos + 1,
                                    [sink |-> st.sink \o <<"\n">>, atStart |-> TRUE])
         ELSE WriteLoopStaysAtStart(out, pos + 1,
                        [sink |-> st.sink \o PrefixAndIndent(st.atStart)
                                          \o output(SubSeq(out, start, pos)),
                         atStart |-> TRUE])

\* The loop of operator<<(const std::string &) from position start on
\* (lines 66-95).  st is [sink, atStart].
RECURSIVE WriteLoop(_, _, _)
WriteLoop(out, start, st) ==
    IF ~(start <= Len(out)) THEN st
    ELSE LET pos == Find(out, <<"\n">>, start) IN
         IF pos = NPOS
         THEN [sink |-> st.sink \o PrefixAndIndent(st.atStart)
                                \o output(SubSeq(out, start, Len(out))),
               atStart |-> FALSE]
         ELSE IF pos = start
         THEN WriteLoop(out, pos + 1, [sink |-> st.sink \o <<"\n">>, atStart |-> TRUE])
         ELSE WriteLoop(out, pos + 1,
                        [sink |-> st.sink \o PrefixAndIndent(st.atStart)
                                          \o output(SubSeq(out, start, pos)),
                         atStart |-> TRUE])

\* What a call on the Formatter leaves alone.
otherThanFmt == <<worldVars, mainVars, compatWorld, compatVars, pkgWorld, pkgVars, genVars,
                  optVars, file, detailVars>>

\* The levels, line prefixes, tokens, texts and numbers the calls are made
\* with.  "#" and " " occur in no text, so that a prefix in the sink is told
\* from written text.
Levels == {1, 2}
Prefixes == {<<"#">>}
Namespaces == {<<>>, <<"n">>, <<"n", "a">>, <<"\n">>, <<"a", "\n">>, <<"\n", "a">>}
Texts == {<<>>, <<"a">>, <<"\n">>, <<"a", "\n">>, <<"\n", "a">>, <<"n">>, <<"n", "a">>,
          <<"a", "\n", "a">>, <<"n", "a", "n", "\n">>}
Numbers == {0, 12}

\* A call is made on a live Formatter.
Called(name) ==
    /\ fpc = "live"
    /\ nOps < MaxOps
    /\ nOps' = nOps + 1
    /\ lastOp' = name

\* void Formatter::indent(size_t level)
FormatterIndent ==
    \E level \in Levels :
        /\ Called("indent")
        /\ mIndentDepth + level <= MaxDepth
        /\ mIndentDepth' = mIndentDepth + level
        /\ lastLevel' = level
        /\ UNCHANGED <<otherThanFmt, mFile, mAtStartOfLine, mLinePrefix, mSpace, sink, fpc,
                       scopes, scopeEntry, lastText>>

\* An unindent that stops at depth 0 and says nothing.
UnindentClamped(level) ==
    /\ mIndentDepth' = (IF mIndentDepth >= level THEN mIndentDepth - level ELSE 0)
    /\ fpc' = fpc

\* The body of unindent: assert(mIndentDepth >= level); mIndentDepth -= level.
\* The assert is compiled in; its failure aborts the process.
Unindent(level) ==
    IF mIndentDepth >= level
    THEN mIndentDepth' = mIndentDepth - level /\ fpc' = fpc
    ELSE mIndentDepth' = mIndentDepth /\ fpc' = "SIGABRT"

\* void Formatter::unindent(size_t level)
FormatterUnindent ==
    \E level \in Levels :
        /\ Called("unindent")
        /\ Unindent(level)
        /\ lastLevel' = level
        /\ UNCHANGED <<otherThanFmt, mFile, mAtStartOfLine, mLinePrefix, mSpace, sink,
                       scopes, scopeEntry, lastText>>

\* indent(level, func) and indent(func) up to the call of func: the depth is
\* raised and func starts; what func does are the calls that follow.
FormatterScopedIndent ==
    \E level \in Levels :
        /\ Called("indent-scoped")
        /\ mIndentDepth + level <= MaxDepth
        /\ mIndentDepth' = mIndentDepth + level
        /\ scopes' = Append(scopes, level)
        /\ scopeEntry' = Append(scopeEntry, mIndentDepth)
        /\ lastLevel' = level
        /\ UNCHANGED <<otherThanFmt, mFile, mAtStartOfLine, mLinePrefix, mSpace, sink, fpc,
                       lastText>>

\* A return of func after which the helper forgets its unindent.
FormatterScopedReturnNoUnindent ==
    /\ fpc = "live"
    /\ scopes # <<>>
    /\ UNCHANGED <<mIndentDepth, fpc>>
    /\ scopes' = SubSeq(scopes, 1, Len(scopes) - 1)
    /\ scopeEntry' = SubSeq(scopeEntry, 1, Len(scopeEntry) - 1)
    /\ lastLevel' = scopes[Len(scopes)]
    /\ lastOp' = "unindent-scoped"
    /\ UNCHANGED <<otherThanFmt, mFile, mAtStartOfLine, mLinePrefix, mSpace, sink, nOps,
                   lastText>>

\* func returns to the innermost indent(level, func): this->unindent(level).
FormatterScopedReturn ==
    /\ fpc = "live"
    /\ scopes # <<>>
    /\ Unindent(scopes[Len(scopes)])
    /\ scopes' = SubSeq(scopes, 1, Len(scopes) - 1)
    /\ scopeEntry' = SubSeq(scopeEntry, 1, Len(scopeEntry) - 1)
    /\ lastLevel' = scopes[Len(scopes)]
    /\ lastOp' = "unindent-scoped"
    /\ UNCHANGED <<otherThanFmt, mFile, mAtStartOfLine, mLinePrefix, mSpace, sink, nOps,
                   lastText>>

\* void Formatter::setLinePrefix(const std::string &prefix)
FormatterSetLinePrefix ==
    \E prefix \in Prefixes :
        /\ Called("setLinePrefix")
        /\ mLinePrefix' = prefix
        /\ UNCHANGED <<otherThanFmt, mFile, mIndentDepth, mAtStartOfLine, mSpace, sink, fpc,
                       scopes, scopeEntry, lastText, lastLevel>>

\* An unsetLinePrefix that also starts a new line.
FormatterUnsetLinePrefixAtLineStart ==
    /\ Called("unsetLinePrefix")
    /\ mLinePrefix' = <<>>
    /\ mAtStartOfLine' = TRUE
    /\ UNCHANGED <<otherThanFmt, mFile, mIndentDepth, mSpace, sink, fpc,
                   scopes, scopeEntry, lastText, lastLevel>>

\* void Formatter::unsetLinePrefix()
FormatterUnsetLinePrefix ==
    /\ Called("unsetLinePrefix")
    /\ mLinePrefix' = <<>>
    /\ UNCHANGED <<otherThanFmt, mFile, mIndentDepth, mAtStartOfLine, mSpace, sink, fpc,
                   scopes, scopeEntry, lastText, lastLevel>>

\* void Formatter::setNamespace(const std::string &space)
FormatterSetNamespace ==
    \E space \in Namespaces :
        /\ Called("setNamespace")
        /\ mSpace' = space
        /\ UNCHANGED <<otherThanFmt, mFile, mIndentDepth, mAtStartOfLine, mLinePrefix, sink,
                       fpc, scopes, scopeEntry, lastText, lastLevel>>

\* Formatter &Formatter::operator<<(const std::string &out)
Write(out) ==
    LET st == WriteLoop(out, 1, [sink |-> sink, atStart |-> mAtStartOfLine]) IN
    /\ sink' = st.sink
    /\ mAtStartOfLine' = st.atStart
    /\ lastText' = out
    /\ UNCHANGED <<otherThanFmt, mFile, mIndentDepth, mLinePrefix, mSpace, fpc, scopes,
                   scopeEntry, lastLevel>>

FormatterWrite ==
    \E out \in Texts :
        /\ Called("write")
        /\ Write(out)

\* Formatter &Formatter::operator<<(size_t n)
FormatterWriteNumber ==
    \E n \in Numbers :
        /\ Called("write")
        /\ Write(to_string(n))

\* Formatter::~Formatter(), once no func of a scoped indent is running.
FormatterDestroy ==
    /\ fpc = "live"
    /\ scopes = <<>>
    /\ fpc' = "destroyed"
    /\ mFile' = "NULL"
    /\ lastOp' = "destroy"
    /\ UNCHANGED <<otherThanFmt, mIndentDepth, mAtStartOfLine, mLinePrefix, mSpace, sink,
                   scopes, scopeEntry, nOps, lastText, lastLevel>>

\* Formatter::Formatter(FILE *file): mFile(file == NULL ? stdout : file)
Formatter(f) == IF f = "NULL" THEN "stdout" ELSE f

\* A Formatter after its construction.
InitFmt ==
    /\ file \in {"file", "NULL"}
    /\ mFile = Formatter(file)
    /\ mIndentDepth = 0
    /\ mAtStartOfLine = TRUE
    /\ mLinePrefix = <<>>
    /\ mSpace = <<>>
    /\ sink = <<>>
    /\ fpc = "live"
    /\ scopes = <<>>
    /\ scopeEntry = <<>>
    /\ nOps = 0
    /\ lastOp = "none"
    /\ lastText = <<>>
    /\ lastLevel = 0
    /\ members = <<>> /\ enumErr = <<>> /\ parseFail = {}
    /\ IdleMain
    /\ IdleCompat
    /\ IdlePkg
    /\ IdleGen
    /\ IdleOpt
    /\ IdleDetail

NextFmt ==
    \/ FormatterIndent
    \/ FormatterUnindent
    \/ FormatterScopedIndent
    \/ FormatterScopedReturn
    \/ FormatterSetLinePrefix
    \/ FormatterUnsetLinePrefix
    \/ FormatterSetNamespace
    \/ FormatterWrite
    \/ FormatterWriteNumber
    \/ FormatterDestroy

SpecFmt == InitFmt /\ [][NextFmt]_vars

----------------------------------------------------------------------------
(* Properties of SpecFmt *)

\* The step is a call of operator<<; its text is lastText'.
WriteStep == lastOp' = "write" /\ nOps' = nOps + 1

\* The prefix of a line begun now: the line prefix, then four spaces per level.
LinePrefixNow == mLinePrefix \o [k \in 1..(4 * mIndentDepth) |-> " "]

\* A write, character by character, that puts the prefix before the first
\* character of every line, a newline included.  st is [sink, atStart].
RECURSIVE EveryLineWrite(_, _)
EveryLineWrite(text, st) ==
    IF text = <<>> THEN st
    ELSE EveryLineWrite(Tail(text),
                        [sink |-> st.sink \o (IF st.atStart THEN LinePrefixNow ELSE <<>>)
                                          \o <<Head(text)>>,
                         atStart |-> Head(text) = "\n"])

\* A write, character by character, that puts the prefix before the first
\* character of a line that is not a newline.
RECURSIVE LazyWrite(_, _)
LazyWrite(text, st) ==
    IF text = <<>> THEN st
    ELSE IF Head(text) = "\n"
    THEN LazyWrite(Tail(text), [sink |-> st.sink \o <<"\n">>, atStart |-> TRUE])
    ELSE LazyWrite(Tail(text),
                   [sink |-> st.sink \o (IF st.atStart THEN LinePrefixNow ELSE <<>>)
                                     \o <<Head(text)>>,
                    atStart |-> FALSE])

\* The positions of text at which a line's first character other than a
\* newline is written.
PrefixPoints(text, atStart) ==
    {i \in 1..Len(text) :
        /\ text[i] # "\n"
        /\ IF i = 1 THEN atStart ELSE text[i - 1] = "\n"}

\* How often character ch occurs in text.
Count(ch, text) == Cardinality({i \in 1..Len(text) : text[i] = ch})

\* A write of the empty string changes nothing of the Formatter.
EmptyWriteIsNoOp ==
    lastText' = <<>> =>
        UNCHANGED <<mFile, mIndentDepth, mAtStartOfLine, mLinePrefix, mSpace, sink, fpc,
                    scopes>>

\* C10 as stated: every new output line, an empty one included, is prefixed
\* with the line prefix followed by 4 x indentDepth spaces, once, at the
\* first character written after a newline; a write of the empty string
\* emits nothing and changes no state.
C10_Original_EveryLinePrefixed ==
    [][WriteStep =>
         /\ mSpace = <<>> =>
              sink' = EveryLineWrite(lastText', [sink |-> sink,
                                                 atStart |-> mAtStartOfLine]).sink
         /\ EmptyWriteIsNoOp]_vars

\* C10, amended: every output line that holds a character other than its
\* newline is prefixed with the line prefix followed by 4 x indentDepth
\* spaces, once, lazily at the first such character, with the depth and the
\* prefix in force at that moment; a line that is only a newline gets no
\* prefix; a write of the empty string emits nothing and changes no state.
\* With a token to elide set, the prefixes are emitted at the same points.
C10_NonEmptyLinesPrefixedLazilyOnce ==
    [][WriteStep =>
         LET ref == LazyWrite(lastText', [sink |-> sink, atStart |-> mAtStartOfLine])
             points == Cardinality(PrefixPoints(lastText', mAtStartOfLine))
         IN
         /\ mSpace = <<>> => sink' = ref.sink
         /\ mAtStartOfLine' = ref.atStart
         /\ Count("#", sink') - Count("#", sink) = Count("#", mLinePrefix) * points
         /\ Count(" ", sink') - Count(" ", sink) = 4 * mIndentDepth * points
         /\ EmptyWriteIsNoOp]_vars

\* At depth 1 with the line prefix "#", "a" was written at the start of a
\* line and got the prefix; the write of the empty string that followed
\* left the sink and the line unfinished as they were.
C10_Witness ==
    /\ lastOp = "write"
    /\ lastText = <<>>
    /\ nOps = 4
    /\ mIndentDepth = 1
    /\ mLinePrefix = <<"#">>
    /\ sink = <<"#", " ", " ", " ", " ", "a">>
    /\ ~mAtStartOfLine

\* The text cut at its newlines: the pieces between them, the last piece
\* being what follows the last newline (empty after a trailing newline).
RECURSIVE SplitAtNewlines(_)
SplitAtNewlines(text) ==
    IF \A i \in 1..Len(text) : text[i] # "\n" THEN <<text>>
    ELSE LET nl == CHOOSE i \in 1..Len(text) :
                       text[i] = "\n" /\ \A j \in 1..(i - 1) : text[j] # "\n"
         IN <<SubSeq(text, 1, nl - 1)>> \o SplitAtNewlines(SubSeq(text, nl + 1, Len(text)))

\* The pieces as lines in the sink: every piece but the last is ended by a
\* newline, and a piece that begins a line gets the prefix.  alsoEmpty tells
\* whether a piece with no character of its own, ended by a newline, gets
\* the prefix too.
RECURSIVE RenderPieces(_, _, _)
RenderPieces(pieces, atStart, alsoEmpty) ==
    LET piece == Head(pieces)
        last == Len(pieces) = 1
        prefixed == atStart /\ (piece # <<>> \/ (alsoEmpty /\ ~last))
        line == (IF prefixed THEN LinePrefixNow ELSE <<>>) \o piece
    IN IF last THEN line
       ELSE line \o <<"\n">> \o RenderPieces(Tail(pieces), TRUE, alsoEmpty)

\* What every write does to the line state: a text ending in a newline leaves
\* the Formatter at the start of a line, any other text leaves it mid-line,
\* and the sink gains as many newlines as the text holds, unless the token
\* to elide holds a newline itself and takes some away.
WriteLineState ==
    /\ lastText' # <<>> => (mAtStartOfLine' <=> lastText'[Len(lastText')] = "\n")
    /\ Count("\n", mSpace) = 0 =>
           Count("\n", sink') - Count("\n", sink) = Count("\n", lastText')

OccursAt(text, token, i) ==
    /\ i + Len(token) - 1 <= Len(text)
    /\ SubSeq(text, i, i + Len(token) - 1) = token

\* text with every occurrence of a non-empty token deleted, read from the
\* left: where the token stands it is skipped, any other character is kept.
RECURSIVE DeleteOccurrences(_, _)
DeleteOccurrences(text, token) ==
    IF text = <<>> THEN <<>>
    ELSE IF OccursAt(text, token, 1)
    THEN DeleteOccurrences(SubSeq(text, Len(token) + 1, Len(text)), token)
    ELSE <<Head(text)>> \o DeleteOccurrences(Tail(text), token)

\* The written text in a piece of the sink: the sink without the characters
\* of line prefixes and indentation, which occur in no text.
TextOf(written) == SelectSeq(written, LAMBDA ch : ch \notin {"#", " "})

\* The first line of a non-empty text, its newline included if it has one.
FirstLine(text) ==
    LET nl == Find(text, <<"\n">>, 1)
    IN  IF nl = NPOS THEN text ELSE SubSeq(text, 1, nl)

\* text, line by line: a line that is only its newline as it is, every
\* other line, taken with its newline, with the occurrences of the token
\* deleted.
RECURSIVE DeleteWithinLines(_, _)
DeleteWithinLines(text, token) ==
    IF text = <<>> THEN <<>>
    ELSE LET line == FirstLine(text)
         IN  (IF line = <<"\n">> THEN line ELSE DeleteOccurrences(line, token))
             \o DeleteWithinLines(SubSeq(text, Len(line) + 1, Len(text)), token)

\* C12 as stated, read write by write: with a non-empty token set by
\* setNamespace, what a write adds to the sink is its text with every exact
\* occurrence of the token deleted, whatever surrounds it; with an empty
\* token the text is written unchanged.  (Read over all the output that
\* follows setNamespace, the statement asks for more, not less.)
C12_Original_WritesDeleteEveryOccurrenceOfToken ==
    [][WriteStep =>
         /\ mSpace # <<>> =>
              TextOf(sink') = TextOf(sink) \o DeleteOccurrences(lastText', mSpace)
         /\ mSpace = <<>> => TextOf(sink') = TextOf(sink) \o lastText']_vars

\* C12, amended: with a non-empty token set by setNamespace, what a write
\* adds to the sink is its text with every exact occurrence of the token
\* deleted that lies within one line of the text, a line taken with the
\* newline that ends it, whatever surrounds the occurrence; the newline of
\* an empty line is written as it is, and an occurrence that reaches over a
\* newline into the next line, or from one write into the next, is not
\* deleted; with an empty token the text is written unchanged.
C12_WritesDeleteOccurrencesWithinALine ==
    [][WriteStep =>
         /\ mSpace # <<>> =>
              TextOf(sink') = TextOf(sink) \o DeleteWithinLines(lastText', mSpace)
         /\ mSpace = <<>> => TextOf(sink') = TextOf(sink) \o lastText']_vars

\* With the token "n" set, "nan\n" was written, a line with two
\* occurrences and its newline, and "a\n" reached the sink.
C12_Witness ==
    /\ lastOp = "write"
    /\ lastText = <<"n", "a", "n", "\n">>
    /\ mSpace = <<"n">>
    /\ nOps = 2
    /\ sink = <<"a", "\n">>

\* The step is a call of indent, of unindent, or the unindent that ends a
\* scoped indent; its level is lastLevel'.
IndentStep == lastOp' \in {"indent", "indent-scoped"} /\ nOps' = nOps + 1
UnindentStep ==
    \/ lastOp' = "unindent" /\ nOps' = nOps + 1
    \/ lastOp' = "unindent-scoped" /\ Len(scopes') = Len(scopes) - 1

\* C13: the indent depth is never negative; indent(level) adds level and
\* unindent(level) subtracts it; an unindent(level) with level greater than
\* the depth is reported, the failed assertion ending the process: the depth
\* is not clamped to zero, does not wrap around, and no later call is served.
C13_DepthNeverNegativeUnindentBelowZeroReported ==
    [][/\ mIndentDepth' >= 0
       /\ IndentStep => mIndentDepth' = mIndentDepth + lastLevel' /\ fpc' = "live"
       /\ (UnindentStep /\ lastLevel' <= mIndentDepth) =>
              mIndentDepth' = mIndentDepth - lastLevel' /\ fpc' = "live"
       /\ (UnindentStep /\ lastLevel' > mIndentDepth) =>
              fpc' = "SIGABRT" /\ mIndentDepth' = mIndentDepth
       /\ fpc = "SIGABRT" => UNCHANGED fmtVars]_vars

\* unindent(2) was called at depth 1: the assertion failed and the depth is
\* still 1.
C13_Witness ==
    /\ fpc = "SIGABRT"
    /\ lastOp = "unindent"
    /\ lastLevel = 2
    /\ mIndentDepth = 1

\* The step is the return of func to the innermost scoped indent.
ScopedReturnStep == lastOp' = "unindent-scoped" /\ Len(scopes') = Len(scopes) - 1

\* C14: indent(level, func) raises the depth by level and runs func; when
\* func returns, however it came to its end, the helper unindents by level
\* (lowering the depth, or failing the assertion of unindent when func left
\* less than level); after a func that left the depth as it found it, nested
\* scoped blocks included, the depth is the one before the helper was called.
C14_ScopedIndentRestoresDepth ==
    [][/\ (lastOp' = "indent-scoped" /\ nOps' = nOps + 1) =>
            /\ mIndentDepth' = mIndentDepth + lastLevel'
            /\ scopes' = Append(scopes, lastLevel')
            /\ scopeEntry' = Append(scopeEntry, mIndentDepth)
       /\ ScopedReturnStep =>
            LET level == scopes[Len(scopes)]
                before == scopeEntry[Len(scopeEntry)]
            IN /\ mIndentDepth >= level =>
                    mIndentDepth' = mIndentDepth - level /\ fpc' = "live"
               /\ mIndentDepth < level => fpc' = "SIGABRT"
               /\ mIndentDepth = before + level => mIndentDepth' = before]_vars

\* Two scoped blocks, one inside the other, have both returned: the text
\* written by the inner one stands at depth 2, and the depth is 0 again.
C14_Witness ==
    /\ lastOp = "unindent-scoped"
    /\ scopes = <<>>
    /\ nOps = 3
    /\ lastLevel = 1
    /\ mIndentDepth = 0
    /\ fpc = "live"
    /\ sink = <<" ", " ", " ", " ", " ", " ", " ", " ", "a">>

\* The sink and the start-of-line flag after out was written in the state
\* st; the other fields are not touched by a write.
Written(out, st) == WriteLoop(out, 1, st)

\* Writing s and then t leaves what the one write of s \o t leaves.
Composes(s, t) ==
    LET now == [sink |-> sink, atStart |-> mAtStartOfLine]
    IN  Written(t, Written(s, now)) = Written(s \o t, now)

\* An occurrence of the token within one line of s \o t, a line taken with
\* the newline that ends it, begins in s and ends in t.
SpansJunction(s, t, token) ==
    /\ Len(token) > 0
    /\ \E i \in 1..Len(s) :
          /\ i + Len(token) - 1 > Len(s)
          /\ i + Len(token) - 1 <= Len(s) + Len(t)
          /\ SubSeq(s \o t, i, i + Len(token) - 1) = token
          /\ \A k \in i..(i + Len(token) - 2) : (s \o t)[k] # "\n"

NewlineTokenEndsLineOfS(s, t, token) ==
    /\ token = <<"\n">>
    /\ s # <<>>
    /\ s[Len(s)] # "\n"
    /\ t # <<>>
    /\ t[1] = "\n"

C27_Step ==
    (nOps' = nOps + 1) =>
        CASE lastOp' \in {"indent", "unindent", "indent-scoped", "unindent-scoped"} ->
                UNCHANGED <<sink, mAtStartOfLine, mLinePrefix, mSpace>>
          [] lastOp' \in {"setLinePrefix", "unsetLinePrefix"} ->
                UNCHANGED <<sink, mAtStartOfLine, mIndentDepth, mSpace>>
          [] lastOp' = "setNamespace" ->
                UNCHANGED <<sink, mAtStartOfLine, mIndentDepth, mLinePrefix>>
          [] lastOp' = "write" ->
                UNCHANGED <<mIndentDepth, mLinePrefix, mSpace>>
          [] OTHER -> FALSE

\* C27: indent, unindent, setLinePrefix, unsetLinePrefix and setNamespace
\* write nothing and leave the start-of-line flag as it was, each changing
\* no field but its own; a write changes the sink and the start-of-line
\* flag only, not the depth, the line prefix or the elision token.
C27_FrameConditions == [][C27_Step]_vars

\* setNamespace was called in the middle of a line, with text in the sink,
\* a line prefix and an indentation: all of them are as the write left
\* them.
C27_Witness ==
    /\ lastOp = "setNamespace"
    /\ nOps = 4
    /\ mSpace = <<"n">>
    /\ sink = <<"#", " ", " ", " ", " ", "a">>
    /\ ~mAtStartOfLine
    /\ mLinePrefix = <<"#">>
    /\ mIndentDepth = 1

----------------------------------------------------------------------------
(* The generators' calls on their Formatter                                *)
(*                                                                         *)
(* A generator's run is the sequence of its steps on one path: the calls   *)
(* of its collaborators that set err, the construction of the Formatter,   *)
(* the writes, the indents and unindents, and the returns.  "<<" stands    *)
(* for a run of operator<< calls with no other step between them.  The     *)
(* loops over interfaces, types and imported packages are unrolled for the *)
(* sizes the inputs give.                                                  *)

\* n copies of ops, one after the other.
RECURSIVE Rep(_, _)
Rep(n, ops) == IF n = 0 THEN <<>> ELSE ops \o Rep(n - 1, ops)

\* Formatter::indent(func): indent, func, unindent (Formatter.cpp 45-53).
ScopedIndent(body) == <<"indent">> \o body \o <<"unindent">>

\* Formatter::block(func): "{", the scoped indent of func, "}".
Block(body) == <<"<<">> \o ScopedIndent(body) \o <<"<<">>

\* The start of every generator: the enumeration of the package's members,
\* then the parse of each of them.
Preamble(in) ==
    IF in.pre = "enum-error" THEN <<"err:=error", "if-err-return">>
    ELSE <<"err:=OK", "if-err-return">>
         \o (IF in.pre = "parse-null" THEN <<"parse-null-return">> ELSE <<>>)

\* getFormatter and the test of isValid.
Construct == <<"getFormatter", "unless-valid-return">>

generateMakefileSectionForType ==
    <<"<<", "indent", "indent", "<<", "unindent", "unindent", "<<">>

generateMakefileSection(in) == Rep(in.n, generateMakefileSectionForType)

\* err = isPackageJavaCompatible(...): the status of an enumeration that
\* fails (lines 355-357, 389-391), UNKNOWN_ERROR when a member of an
\* imported package does not parse (372-374), else OK.
isPackageJavaCompatibleStatus(in) ==
    CASE in.pre = "compat-error" -> <<"err:=error">>
      [] in.pre = "compat-null"  -> <<"err:=UNKNOWN_ERROR">>
      [] OTHER                   -> <<"err:=OK">>

generateMakefileSectionForJavaConstants ==
    <<"<<", "indent", "indent", "<<", "unindent", "unindent", "<<">>

generateMakefileForPackage(in) ==
    Preamble(in)
    \o isPackageJavaCompatibleStatus(in)
    \o <<"if-err-return">>
    \o (IF (~in.javaCompat /\ ~in.haveConst) \/ in.pre = "no-java"
        THEN <<"return-OK">>
        ELSE Construct \o <<"<<">>
             \o (IF in.javaCompat
                 THEN <<"<<">>
                      \o (IF Len(in.imps) > 0
                          THEN <<"<<", "indent">> \o Rep(Len(in.imps), <<"<<">>)
                               \o <<"<<", "unindent">>
                          ELSE <<>>)
                      \o <<"<<">> \o generateMakefileSection(in) \o <<"<<">>
                 ELSE <<>>)
             \o (IF in.haveConst
                 THEN <<"<<">> \o generateMakefileSectionForJavaConstants \o <<"<<">>
                 ELSE <<>>)
             \o <<"<<", "return-OK">>)

generateAndroidBpGenSection(in) ==
    <<"<<", "indent", "<<", "indent", "<<", "unindent", "<<", "indent">>
    \o Rep(in.n, <<"<<">>)
    \o <<"unindent", "<<", "unindent", "<<">>

\* isHidlTransportPackage(importedPackage) for a package of the run:
\* "transport" is android.hidl.base or android.hidl.manager, "self" the
\* generated package, whose kind is the run's.
IsTransportImport(imp, in) ==
    imp = "transport" \/ (imp = "self" /\ isHidlTransportPackage(in.kind))

\* generateAndroidBpDependencyList: a write for each of the packages that
\* is not a transport package.
generateAndroidBpDependencyList(packages, in) ==
    Rep(Len(SelectSeq(packages, LAMBDA imp : ~IsTransportImport(imp, in))), <<"<<">>)

\* adapterPackages: importedPackagesHierarchy and the package itself.
AdapterPackages(in) ==
    IF \E k \in 1..Len(in.imps) : in.imps[k] = "self"
    THEN in.imps
    ELSE in.imps \o <<"self">>

\* A library section that forgets its last unindent.
generateAndroidBpLibSectionUnbalanced(libraryLocation, generateDependencies) ==
    <<"<<", "indent", "<<">>
    \o (IF libraryLocation = "VNDK"
        THEN <<"<<">> \o Block(<<"<<">>) \o <<"<<">>
        ELSE <<"<<">>)
    \o <<"<<", "indent", "<<">> \o generateDependencies \o <<"unindent", "<<">>
    \o <<"<<", "indent", "<<">> \o generateDependencies \o <<"unindent", "<<">>
    \o <<"<<">>

\* generateDependencies is the run of one call of the callback; the section
\* calls it twice, for shared_libs and for export_shared_lib_headers.
generateAndroidBpLibSection(libraryLocation, generateDependencies) ==
    <<"<<", "indent", "<<">>
    \o (IF libraryLocation = "VNDK"
        THEN <<"<<">> \o Block(<<"<<">>) \o <<"<<">>
        ELSE <<"<<">>)
    \o <<"<<", "indent", "<<">> \o generateDependencies \o <<"unindent", "<<">>
    \o <<"<<", "indent", "<<">> \o generateDependencies \o <<"unindent", "<<">>
    \o <<"unindent", "<<">>

\* The loop of the adapter helper's callback (lines 1094-1112) over what
\* isTypesOnlyPackage answers for each imported package: "self" is the
\* package itself and is skipped, "error" ends the callback; a transport
\* package has an interface and is written like a library.
RECURSIVE HelperLoop(_)
HelperLoop(imps) ==
    IF imps = <<>> THEN <<>>
    ELSE CASE imps[1] = "self" -> HelperLoop(Tail(imps))
           [] imps[1] = "error" -> <<"err:=error">>
           [] imps[1] = "typesOnly" -> <<"err:=OK">> \o HelperLoop(Tail(imps))
           [] OTHER -> <<"err:=OK", "<<">> \o HelperLoop(Tail(imps))

\* One call of the adapter helper's callback (lines 1091-1113).
AdapterHelperDependencies(in) ==
    <<"<<">> \o generateAndroidBpDependencyList(AdapterPackages(in), in)
    \o HelperLoop(in.imps)

generateAndroidBpForPackage(in) ==
    Preamble(in) \o Construct
    \o <<"<<", "indent", "<<", "indent">> \o Rep(in.n, <<"<<">>)
    \o <<"unindent", "<<", "unindent", "<<">>
    \o generateAndroidBpGenSection(in) \o generateAndroidBpGenSection(in)
    \o (IF isHidlTransportPackage(in.kind)
        THEN <<"<<">>
        ELSE generateAndroidBpLibSection(IF in.forTest THEN "VENDOR_AVAILABLE" ELSE "VNDK",
                                         generateAndroidBpDependencyList(in.imps, in))
             \o (IF ~isSystemPackage(in.kind)
                 THEN <<"<<">>
                      \o generateAndroidBpLibSection("VENDOR",
                                                     generateAndroidBpDependencyList(in.imps, in))
                 ELSE <<>>))
    \o (IF in.own = "error" THEN <<"err:=error">> ELSE <<"err:=OK">>)
    \o <<"if-err-return">>
    \o (IF in.own = "true"
        THEN <<"return-OK">>
        ELSE <<"<<">>
             \o generateAndroidBpGenSection(in) \o generateAndroidBpGenSection(in)
             \o <<"<<">>
             \o generateAndroidBpLibSection("VENDOR_AVAILABLE", AdapterHelperDependencies(in))
             \o <<"if-err-return">>
             \o <<"<<", "indent", "<<", "unindent",
                  "<<", "indent", "<<", "indent", "<<">>
             \o generateAndroidBpDependencyList(AdapterPackages(in), in)
             \o <<"<<", "unindent", "<<", "unindent", "<<", "return-OK">>)

\* The Formatter is constructed before the members are enumerated.
generateAdapterMainSource(in) ==
    Construct
    \o (IF in.pre = "enum-error" THEN <<"err:=error">> ELSE <<"err:=OK">>)
    \o <<"if-err-return">>
    \o <<"<<">> \o Rep(in.n, <<"<<">>) \o <<"<<">>
    \o Block(<<"<<", "indent">> \o Rep(in.n, <<"<<">>) \o <<"<<", "unindent">>)
    \o <<"<<", "return-OK">>

generateAndroidBpImplForPackage(in) ==
    Preamble(in) \o Construct
    \o <<"<<">>
    \o ScopedIndent(<<"<<">>
                    \o ScopedIndent(Rep(in.n, <<"<<">>))
                    \o <<"<<">>
                    \o ScopedIndent(<<"<<">>
                                    \o generateAndroidBpDependencyList(in.imps, in))
                    \o <<"<<">>)
    \o <<"<<", "return-OK">>

\* in.n is the number of exported types; Type::emitExportedHeader writes
\* and leaves the depth as it found it.
generateExportHeaderForPackage(in) ==
    Preamble(in)
    \o (IF in.n = 0
        THEN <<"return-OK">>
        ELSE Construct \o <<"<<">>
             \o (IF in.forJava THEN <<"<<", "indent">> ELSE <<"<<">>)
             \o Rep(in.n, <<"<<">>)
             \o (IF in.forJava THEN <<"unindent", "<<">> ELSE <<"<<">>)
             \o <<"return-OK">>)

Generators == {"makefile", "androidbp", "androidbp-impl", "c++-adapter-main",
               "export-header"}

Run(g, in) ==
    CASE g = "makefile" -> generateMakefileForPackage(in)
      [] g = "androidbp" -> generateAndroidBpForPackage(in)
      [] g = "androidbp-impl" -> generateAndroidBpImplForPackage(in)
      [] g = "c++-adapter-main" -> generateAdapterMainSource(in)
      [] OTHER -> generateExportHeaderForPackage(in)

\* The step the generator is about to make, "none" once it has returned.
Step ==
    IF gret = "running" /\ fpc # "SIGABRT" /\ gname \in Generators
    THEN Run(gname, gin)[gpos]
    ELSE "none"

\* Formatter::isValid: whether the destination was opened.
FormatterIsValid == file # "NULL"

\* The text of a write.
GenText == <<"a", "\n">>

otherThanGen == <<worldVars, mainVars, compatWorld, compatVars, pkgWorld, pkgVars, optVars, detailVars>>

\* return: the Formatter, when there is one, is destroyed.
Return(status) ==
    /\ gret' = status
    /\ IF fpc = "live"
       THEN fpc' = "destroyed" /\ mFile' = "NULL"
       ELSE UNCHANGED <<fpc, mFile>>

Failed == failedAt' = (IF failedAt = -1 THEN Len(sink) ELSE failedAt)

\* err = <a call of a collaborator>
GenAssignErr ==
    /\ Step \in {"err:=OK", "err:=error", "err:=UNKNOWN_ERROR"}
    /\ gerr' = CASE Step = "err:=OK"    -> OK
                [] Step = "err:=error" -> ENUM_ERROR
                [] OTHER               -> UNKNOWN_ERROR
    /\ IF Step # "err:=OK" THEN Failed ELSE UNCHANGED failedAt
    /\ gpos' = gpos + 1
    /\ UNCHANGED <<otherThanGen, fmtVars, gname, gin, gret>>

\* if (err != OK) return err;
GenIfErrReturn ==
    /\ Step = "if-err-return"
    /\ IF gerr # OK
       THEN Return(gerr) /\ gpos' = gpos
       ELSE gpos' = gpos + 1 /\ UNCHANGED <<gret, fpc, mFile>>
    /\ UNCHANGED <<otherThanGen, mIndentDepth, mAtStartOfLine, mLinePrefix, mSpace, sink,
                   scopes, scopeEntry, nOps, lastOp, lastText, lastLevel, file,
                   gname, gin, gerr, failedAt>>

\* if (ast == NULL) return UNKNOWN_ERROR;
GenParseNullReturn ==
    /\ Step = "parse-null-return"
    /\ Return(UNKNOWN_ERROR)
    /\ Failed
    /\ UNCHANGED <<otherThanGen, mIndentDepth, mAtStartOfLine, mLinePrefix, mSpace, sink,
                   scopes, scopeEntry, nOps, lastOp, lastText, lastLevel, file,
                   gname, gin, gpos, gerr>>

\* Formatter out = coordinator->getFormatter(...)
GenGetFormatter ==
    /\ Step = "getFormatter"
    /\ file' = (IF openFail THEN "NULL" ELSE "file")
    /\ mFile' = Formatter(file')
    /\ fpc' = "live"
    /\ IF openFail THEN Failed ELSE UNCHANGED failedAt
    /\ gpos' = gpos + 1
    /\ UNCHANGED <<otherThanGen, mIndentDepth, mAtStartOfLine, mLinePrefix, mSpace, sink,
                   scopes, scopeEntry, nOps, lastOp, lastText, lastLevel,
                   gname, gin, gerr, gret>>

\* if (!out.isValid()) return UNKNOWN_ERROR;
GenUnlessValidReturn ==
    /\ Step = "unless-valid-return"
    /\ IF ~FormatterIsValid
       THEN Return(UNKNOWN_ERROR) /\ gpos' = gpos
       ELSE gpos' = gpos + 1 /\ UNCHANGED <<gret, fpc, mFile>>
    /\ UNCHANGED <<otherThanGen, mIndentDepth, mAtStartOfLine, mLinePrefix, mSpace, sink,
                   scopes, scopeEntry, nOps, lastOp, lastText, lastLevel, file,
                   gname, gin, gerr, failedAt>>

\* out << ...
GenWrite ==
    /\ Step = "<<"
    /\ LET st == WriteLoop(GenText, 1, [sink |-> sink, atStart |-> mAtStartOfLine]) IN
        /\ sink' = st.sink
        /\ mAtStartOfLine' = st.atStart
    /\ gpos' = gpos + 1
    /\ UNCHANGED <<otherThanGen, mFile, mIndentDepth, mLinePrefix, mSpace, fpc,
                   scopes, scopeEntry, nOps, lastOp, lastText, lastLevel, file,
                   gname, gin, gerr, gret, failedAt>>

\* out.indent()
GenIndent ==
    /\ Step = "indent"
    /\ mIndentDepth' = mIndentDepth + 1
    /\ gpos' = gpos + 1
    /\ UNCHANGED <<otherThanGen, mFile, mAtStartOfLine, mLinePrefix, mSpace, sink, fpc,
                   scopes, scopeEntry, nOps, lastOp, lastText, lastLevel, file,
                   gname, gin, gerr, gret, failedAt>>

\* out.unindent()
GenUnindent ==
    /\ Step = "unindent"
    /\ Unindent(1)
    /\ gpos' = gpos + 1
    /\ UNCHANGED <<otherThanGen, mFile, mAtStartOfLine, mLinePrefix, mSpace, sink,
                   scopes, scopeEntry, nOps, lastOp, lastText, lastLevel, file,
                   gname, gin, gerr, gret, failedAt>>

\* return OK;
GenReturnOK ==
    /\ Step = "return-OK"
    /\ Return(OK)
    /\ UNCHANGED <<otherThanGen, mIndentDepth, mAtStartOfLine, mLinePrefix, mSpace, sink,
                   scopes, scopeEntry, nOps, lastOp, lastText, lastLevel, file,
                   gname, gin, gpos, gerr, failedAt>>

\* What the collaborators may answer during a run.
HelperAnswers == {"self", "error", "typesOnly", "lib", "transport"}
\* The imported packages are a set: the package itself is in it at most once.
ImportAnswers ==
    {i \in {<<>>} \cup SeqUpTo(HelperAnswers, MaxImports) :
        Cardinality({k \in 1..Len(i) : i[k] = "self"}) <= 1}
DefaultInput ==
    [pre |-> "proceed", n |-> 1, imps |-> <<>>, javaCompat |-> TRUE, haveConst |-> FALSE,
     kind |-> "other", forTest |-> FALSE, own |-> "false", forJava |-> FALSE]

InputsOf(g) ==
    CASE g = "makefile" ->
            {[DefaultInput EXCEPT !.pre = p, !.n = k, !.imps = i, !.javaCompat = j,
                                  !.haveConst = h] :
                p \in {"enum-error", "parse-null", "compat-error", "compat-null", "no-java",
                       "proceed"},
                k \in 0..MaxSubTypes, i \in {<<>>} \cup SeqUpTo({"lib"}, MaxImports),
                j \in BOOLEAN, h \in BOOLEAN}
      [] g = "androidbp" ->
            {[DefaultInput EXCEPT !.pre = p, !.imps = i, !.kind = k, !.forTest = t,
                                  !.own = o] :
                p \in {"enum-error", "parse-null", "proceed"},
                i \in ImportAnswers, k \in PkgKinds,
                t \in BOOLEAN, o \in {"error", "true", "false"}}
      [] g = "androidbp-impl" ->
            {[DefaultInput EXCEPT !.pre = p, !.n = k, !.imps = i] :
                p \in {"enum-error", "parse-null", "proceed"},
                k \in 0..MaxSubTypes,
                i \in {<<>>} \cup SeqUpTo({"lib", "transport"}, MaxImports)}
      [] g = "c++-adapter-main" ->
            {[DefaultInput EXCEPT !.pre = p, !.n = k] :
                p \in {"enum-error", "proceed"}, k \in 0..MaxSubTypes}
      [] OTHER ->
            {[DefaultInput EXCEPT !.pre = p, !.n = k, !.forJava = j] :
                p \in {"enum-error", "parse-null", "proceed"},
                k \in 0..MaxSubTypes, j \in BOOLEAN}

InitGen ==
    /\ gname \in Generators
    /\ gin \in InputsOf(gname)
    /\ gpos = 1
    /\ gerr = OK
    /\ gret = "running"
    /\ failedAt = -1
    /\ openFail \in BOOLEAN
    /\ members = <<>> /\ enumErr = <<>> /\ parseFail = {}
    /\ genFail = {} /\ exported = {}
    /\ lang = "check" /\ args = <<>> /\ argi = 1 /\ pc = "idle" /\ err = OK
    /\ memberList = <<>> /\ memberIdx = 1 /\ genCalls = <<>> /\ parseLog = <<>>
    /\ genInvoked = <<>> /\ files = {} /\ exitCode = "running"
    /\ statuses = <<>>
    /\ IdleCompat
    /\ IdlePkg
    /\ IdleFmt
    /\ IdleOpt
    /\ IdleDetail

NextGen ==
    \/ GenAssignErr
    \/ GenIfErrReturn
    \/ GenParseNullReturn
    \/ GenGetFormatter
    \/ GenUnlessValidReturn
    \/ GenWrite
    \/ GenIndent
    \/ GenUnindent
    \/ GenReturnOK

SpecGen == InitGen /\ [][NextGen]_vars

----------------------------------------------------------------------------
(* Properties of SpecGen *)

Returned == gret # "running"
Constructed == fpc \in {"live", "destroyed"}

\* C15: in every generator, on every return path taken after the Formatter
\* is constructed, the indent depth is 0 when the Formatter is destroyed,
\* and no unindent is executed at depth 0.
C15_GeneratorsBalanceIndentation ==
    /\ (Returned /\ Constructed) => (fpc = "destroyed" /\ mIndentDepth = 0)
    /\ Step = "unindent" => mIndentDepth >= 1
    /\ fpc # "SIGABRT"

\* generateAndroidBpForPackage has returned the error of the adapter
\* helper's callback, with the library sections written.
C15_Witness ==
    /\ gname = "androidbp"
    /\ gin.imps = <<"lib", "error">>
    /\ gin.own = "false"
    /\ gret = ENUM_ERROR
    /\ fpc = "destroyed"
    /\ mIndentDepth = 0
    /\ Len(sink) > 0

\* C16 (under SpecFmt), as the claim states it: a Formatter constructed
\* without a file answers the validity query as invalid, and every write to
\* it is a no-op: nothing reaches any sink, standard output included.
C16_Original_InvalidEmitterWritesNothing ==
    (fpc \in {"live", "destroyed"} /\ file = "NULL")
        => (~FormatterIsValid /\ sink = <<>>)

\* What the code does: the Formatter constructed without a file writes to
\* standard output, as one constructed with a file writes to the file.
C16_NullFileWritesToStdout ==
    (fpc = "live" /\ file = "NULL") => mFile = "stdout"

\* A text was written through a Formatter constructed without a file.
C16_Witness ==
    /\ file = "NULL"
    /\ fpc = "live"
    /\ mFile = "stdout"
    /\ lastOp = "write"
    /\ lastText = <<"a">>
    /\ sink = <<"a">>

----------------------------------------------------------------------------
(* main from its first line: the options, then the loop over the names     *)
(* (lines 1546-1729)                                                       *)
(*                                                                         *)
(* The command line is argv, its options in order, followed by args, its   *)
(* names.  An option is [opt, arg]; arg is a sequence of pieces, ":" being *)
(* a piece of its own, so that "vendor.x:p" is <<"vendor.x", ":", "p">>.   *)

MaxOpts == 2

\* OutputHandler::mOutputMode of the handlers of the model.
OutputMode(l) ==
    CASE l \in {"c++", "java"} -> "NEEDS_DIR"
      [] l = "export-header" -> "NEEDS_FILE"
      [] OTHER -> "NOT_NEEDED"

\* The roots of the four addDefaultPackagePath calls (lines 1700-1703).
DefaultRoots ==
    << <<"android.hardware">>, <<"android.hidl">>, <<"android.frameworks">>,
       <<"android.system">> >>

\* Coordinator::addPackagePath: a root registered before is refused.
addPackagePath(root, table) ==
    IF \E k \in 1..Len(table) : table[k] = root
    THEN [err |-> UNKNOWN_ERROR, table |-> table]
    ELSE [err |-> OK, table |-> Append(table, root)]

\* A main that forgets the default roots.
WithDefaultRootsForgotten(table) == table

\* The four calls of Coordinator::addDefaultPackagePath.
WithDefaultRoots(table) == table \o DefaultRoots

\* A second -L that replaces the first.
AlreadySpecifiedNever(format) == FALSE

\* if (outputFormat != nullptr): -L was given before.
AlreadySpecified(format) == format # "none"

\* An output path asked of the handlers that write a directory only.
NeedsOutputPathDirOnly(mode) == mode = "NEEDS_DIR"

\* case NEEDS_DIR: case NEEDS_FILE: the handlers that exit without -o.
NeedsOutputPath(mode) == mode \in {"NEEDS_DIR", "NEEDS_FILE"}

\* The values of -r, -o and -L, and the options of a command line.
RootArgs == { <<"vendor.x", ":", "p">>, <<"vendor.y", ":", "p">>, <<"vendor.x">> }
PathArgs == { <<"out">>, <<"out", "/">> }
LangArgs == { <<l>> : l \in Backends \cup {"bogus"} }
Options ==
    { [opt |-> "r", arg |-> v] : v \in RootArgs }
    \cup { [opt |-> "o", arg |-> v] : v \in PathArgs }
    \cup { [opt |-> "L", arg |-> v] : v \in LangArgs }
    \cup { [opt |-> o, arg |-> <<>>] : o \in {"t", "v", "h", "?"} }

\* What the options and the first test of main leave alone.
otherThanOptions ==
    <<worldVars, compatWorld, compatVars, pkgWorld, pkgVars, fmtVars, genVars,
      args, argi, err, memberList, memberIdx, genCalls, parseLog, genInvoked, files,
      statuses, argv, detailVars>>

\* exit(1)
Exit1 == pc' = "exit" /\ exitCode' = 1

\* if (argc == 1) { usage(me); exit(1); }
MainStart ==
    /\ pc = "start"
    /\ IF argv = <<>> /\ args = <<>>
       THEN Exit1
       ELSE pc' = "getopt" /\ exitCode' = exitCode
    /\ UNCHANGED <<otherThanOptions, lang, opti, outputPath, roots, generateForTest>>

\* getopt hands out the next option.
NextOption(o) ==
    /\ pc = "getopt"
    /\ opti <= Len(argv)
    /\ argv[opti].opt \in o
    /\ opti' = opti + 1

\* case 'p', case 'v': the Coordinator is configured.
OptionV ==
    /\ NextOption({"v"})
    /\ UNCHANGED <<otherThanOptions, pc, exitCode, lang, outputPath, roots, generateForTest>>

\* case 'o'
OptionO ==
    /\ NextOption({"o"})
    /\ outputPath' = argv[opti].arg
    /\ UNCHANGED <<otherThanOptions, pc, exitCode, lang, roots, generateForTest>>

\* case 'r'
OptionR ==
    /\ NextOption({"r"})
    /\ LET val == argv[opti].arg
           index == Find(val, <<":">>, 1)
           r == addPackagePath(SubSeq(val, 1, index - 1), roots)
       IN IF index = NPOS
          THEN Exit1 /\ roots' = roots
          ELSE /\ roots' = r.table
               /\ IF r.err # OK THEN Exit1 ELSE UNCHANGED <<pc, exitCode>>
    /\ UNCHANGED <<otherThanOptions, lang, outputPath, generateForTest>>

\* case 'L'
OptionL ==
    /\ NextOption({"L"})
    /\ IF AlreadySpecified(lang)
       THEN Exit1 /\ lang' = lang
       ELSE IF argv[opti].arg[1] \in Backends
       THEN lang' = argv[opti].arg[1] /\ UNCHANGED <<pc, exitCode>>
       ELSE Exit1 /\ lang' = lang
    /\ UNCHANGED <<otherThanOptions, outputPath, roots, generateForTest>>

\* case 't'
OptionT ==
    /\ NextOption({"t"})
    /\ generateForTest' = TRUE
    /\ UNCHANGED <<otherThanOptions, pc, exitCode, lang, outputPath, roots>>

\* case '?': case 'h': default: usage(me); exit(1);
OptionUsage ==
    /\ NextOption({"h", "?"})
    /\ Exit1
    /\ UNCHANGED <<otherThanOptions, lang, outputPath, roots, generateForTest>>

\* After the options (lines 1657-1703): the tests of -L, -t, the names and
\* the output path, then the default roots.
MainAfterOptions ==
    /\ pc = "getopt"
    /\ opti > Len(argv)
    /\ IF lang = "none" THEN Exit1 /\ UNCHANGED <<outputPath, roots>>
       ELSE IF generateForTest /\ lang # "androidbp"
       THEN Exit1 /\ UNCHANGED <<outputPath, roots>>
       ELSE IF args = <<>> THEN Exit1 /\ UNCHANGED <<outputPath, roots>>
       ELSE IF NeedsOutputPath(OutputMode(lang)) /\ outputPath = <<>>
       THEN Exit1 /\ UNCHANGED <<outputPath, roots>>
       ELSE /\ outputPath' =
                  (IF OutputMode(lang) = "NEEDS_DIR"
                   THEN IF outputPath[Len(outputPath)] # "/"
                        THEN outputPath \o <<"/">> ELSE outputPath
                   ELSE IF OutputMode(lang) = "NEEDS_FILE" THEN outputPath
                   ELSE <<>>)
            /\ roots' = WithDefaultRoots(roots)
            /\ pc' = "main"
            /\ exitCode' = exitCode
    /\ UNCHANGED <<otherThanOptions, lang, opti, generateForTest>>

\* Sequences over S of length 0 .. n.
SeqFromZero(S, n) == {<<>>} \cup SeqUpTo(S, n)

\* The command lines of the model: those whose options are in order, with
\* every answer of the collaborators, and every list of options with a
\* package whose units parse and generate.
InitOptions ==
    /\ \/ /\ \E l \in Backends, ml \in MemberLists :
               /\ argv \in { << [opt |-> "o", arg |-> <<"out">>],
                                [opt |-> "L", arg |-> <<l>>] >>,
                             << [opt |-> "L", arg |-> <<l>>],
                                [opt |-> "r", arg |-> <<"vendor.x", ":", "p">>],
                                [opt |-> "o", arg |-> <<"out", "/">>] >> }
               /\ members = (Pkg :> ml)
               /\ parseFail \in AtMostOne(UnitsOf(Pkg, ml))
               /\ genFail \in AtMostOne(UnitsOf(Pkg, ml))
               /\ exported \in IF l = "export-header"
                               THEN AtMostOne(UnitsOf(Pkg, ml)) ELSE { {} }
               /\ openFail \in IF l = "export-header" THEN BOOLEAN ELSE {FALSE}
          /\ args \in SeqUpTo(ArgNames, MaxArgs)
          /\ enumErr \in [{Pkg} -> {OK, ENUM_ERROR}]
       \/ /\ argv \in SeqFromZero(Options, MaxOpts)
          /\ args \in { <<>>, <<FQ(Pkg, Ver, <<>>)>>, <<FQ(Pkg, Ver, <<"IFoo">>)>> }
          /\ members = (Pkg :> <<"IFoo">>)
          /\ parseFail = {} /\ genFail = {} /\ exported = {}
          /\ enumErr = (Pkg :> OK)
          /\ openFail = FALSE
    /\ lang = "none"
    /\ opti = 1
    /\ outputPath = <<>>
    /\ roots = <<>>
    /\ generateForTest = FALSE
    /\ argi = 1
    /\ pc = "start"
    /\ err = OK
    /\ memberList = <<>>
    /\ memberIdx = 1
    /\ genCalls = <<>>
    /\ parseLog = <<>>
    /\ genInvoked = <<>>
    /\ files = {}
    /\ exitCode = "running"
    /\ statuses = <<>>
    /\ IdleCompat
    /\ IdlePkg
    /\ IdleFmt
    /\ IdleGen
    /\ IdleDetail

NextOptions ==
    \/ MainStart
    \/ OptionV
    \/ OptionO
    \/ OptionR
    \/ OptionL
    \/ OptionT
    \/ OptionUsage
    \/ MainAfterOptions
    \/ MainValidate
    \/ GenerateFileOrPackage
    \/ GenerateMember
    \/ GenerateExportHeader
    \/ MainAfterGenerate
    \/ MainReturn

SpecMain == InitOptions /\ [][NextOptions]_vars

----------------------------------------------------------------------------
(* Properties of SpecMain *)

\* The options o of the command line, in order.
OptsOf(o) == SelectSeq(argv, LAMBDA x : x.opt = o)

\* The command line alone tells that its arguments are bad: no argument at
\* all, -L missing, unknown or repeated, a -r without ':', no name, or no
\* output path for a handler that requires one.
BadArguments ==
    \/ argv = <<>> /\ args = <<>>
    \/ Len(OptsOf("L")) # 1
    \/ OptsOf("L")[1].arg[1] \notin Backends
    \/ \E k \in 1..Len(argv) :
         argv[k].opt = "r" /\ ~(\E j \in 1..Len(argv[k].arg) : argv[k].arg[j] = ":")
    \/ args = <<>>
    \/ /\ OutputMode(OptsOf("L")[1].arg[1]) \in {"NEEDS_DIR", "NEEDS_FILE"}
       /\ OptsOf("o") = <<>>

\* The other command lines main refuses: -h or an unknown option, -t with a
\* handler other than androidbp, and a root registered twice.
OtherRefusedArguments ==
    \/ \E k \in 1..Len(argv) : argv[k].opt \in {"h", "?", "t"}
    \/ \E j, k \in 1..Len(argv) :
         j < k /\ argv[j].opt = "r" /\ argv[k].opt = "r" /\ argv[j].arg[1] = argv[k].arg[1]

\* Every requested name was valid, passed the handler's validation and was
\* generated with status OK.
AllNamesOK ==
    /\ Len(statuses) = Len(args)
    /\ \A i \in 1..Len(args) :
         isValid(args[i]) /\ validate(lang, args[i]) /\ statuses[i] = OK

\* C17: the process exits with 0 iff every requested name was valid, passed
\* validation and was generated with status OK; it exits with 1 on bad
\* arguments, on an invalid name, on a validation failure, on a parse
\* failure and on a generation failure.
C17_ExitCodeZeroIffAllNamesOK ==
    pc = "exit" =>
        /\ exitCode \in {0, 1}
        /\ exitCode = 0 <=> (args # <<>> /\ AllNamesOK)
        /\ BadArguments => exitCode = 1
        /\ (argi <= Len(args) /\ ~BadArguments /\ ~OtherRefusedArguments
                /\ ~MainAccepts(lang, args[argi])) => exitCode = 1
        /\ (\E k \in 1..Len(parseLog) : ~parse(parseLog[k][2])) => exitCode = 1
        /\ (\E i \in 1..Len(statuses) : statuses[i] # OK) => exitCode = 1

\* Two names were generated and main returned 0.
C17_Witness ==
    /\ pc = "exit"
    /\ exitCode = 0
    /\ lang = "c++"
    /\ Len(args) = 2
    /\ statuses = <<OK, OK>>
    /\ files # {}
    /\ outputPath = <<"out", "/">>

\* The requests of a history log (genCalls, parseLog), in order.
RequestsOf(log) == [k \in 1..Len(log) |-> log[k][1]]

NonDecreasing(seq) == \A j, k \in 1..Len(seq) : j < k => seq[j] <= seq[k]

C19_InOrder ==
    /\ genInvoked = [k \in 1..Len(genInvoked) |-> k]
    /\ Len(statuses) \in {Len(genInvoked) - 1, Len(genInvoked)} \cap Nat
    /\ \A i \in 1..Len(statuses) : i < Len(genInvoked) => statuses[i] = OK
    /\ NonDecreasing(RequestsOf(genCalls)) /\ NonDecreasing(RequestsOf(parseLog))
    /\ \A k \in 1..Len(genCalls) : genCalls[k][1] <= Len(genInvoked)
    /\ \A k \in 1..Len(parseLog) : parseLog[k][1] <= Len(genInvoked)
    /\ pc = "generate" => (Len(statuses) = argi - 1 /\ MainAccepts(lang, args[argi]))
    /\ genInvoked # <<>> => (Len(OptsOf("L")) = 1 /\ lang = OptsOf("L")[1].arg[1])
    /\ (pc = "exit" /\ Len(OptsOf("L")) > 1 /\ ~(argv = <<>> /\ args = <<>>))
          => (exitCode = 1 /\ genInvoked = <<>>)

C19_Step ==
    /\ lang # "none" => lang' = lang
    /\ (statuses # <<>> /\ statuses[Len(statuses)] # OK)
          => UNCHANGED <<genInvoked, genCalls, parseLog, files, statuses>>
    /\ pc = "exit" => UNCHANGED <<genInvoked, genCalls, parseLog, files, statuses>>

\* C19: one invocation drives one backend, a second -L being refused with
\* exit 1, over the names in argument order: name i+1 is validated and
\* generated only after name i was generated with status OK, and after the
\* first failing name no later name is validated, parsed or generated.
C19_OneBackendNamesInOrder == [](C19_InOrder) /\ [][C19_Step]_vars

\* The first name was generated with OK, the second failed, and the process
\* exited with 1.
C19_Witness ==
    /\ pc = "exit"
    /\ exitCode = 1
    /\ Len(args) = 2
    /\ genInvoked = <<1, 2>>
    /\ statuses[1] = OK /\ statuses[2] # OK
    /\ lang = "java"
    /\ Len(ParsesOf(1)) > 0

\* The roots of the -r options, in order.
RegisteredRoots ==
    LET r == OptsOf("r")
    IN [k \in 1..Len(r) |-> SubSeq(r[k].arg, 1, Find(r[k].arg, <<":">>, 1) - 1)]

\* A parse or an enumeration has been asked of the Coordinator, or is about
\* to be.
ResolutionStarted ==
    \/ genInvoked # <<>>
    \/ parseLog # <<>>
    \/ pc \in {"generate", "members", "returned"}

C20_Populated == ResolutionStarted => roots = RegisteredRoots \o DefaultRoots

C20_Step ==
    /\ (genInvoked' # genInvoked \/ parseLog' # parseLog)
          => (roots = RegisteredRoots \o DefaultRoots /\ roots' = roots)
    /\ ResolutionStarted => roots' = roots

\* C20: the package-root table is fully populated before the first parse:
\* every -r registration and the four default roots are added before the
\* first call of parse or of the member enumeration, and no root is added
\* after it.
C20_RootsPopulatedBeforeFirstParse == [](C20_Populated) /\ [][C20_Step]_vars

\* A unit was parsed with the root of -r and the four default roots in the
\* table.
C20_Witness ==
    /\ parseLog # <<>>
    /\ Len(OptsOf("r")) = 1
    /\ roots = << <<"vendor.x">> >> \o DefaultRoots
    /\ Len(roots) = 5

----------------------------------------------------------------------------
(* More properties of SpecGen *)

\* C18, as the claim states it: a failure inside a generator is returned as
\* a status other than OK, and the generator writes no further output once
\* the failure has occurred, the failure of isTypesOnlyPackage inside the
\* dependency callback of generateAndroidBpForPackage included.
C18_Original_FailureReturnedAndNothingWrittenAfter ==
    failedAt # -1 =>
        /\ Returned => gret # OK
        /\ Len(sink) = failedAt

\* What the code does: every failure is returned as a status other than OK,
\* and only generateAndroidBpForPackage writes after one, when the failure
\* is the one inside the adapter helper's callback.
C18_FailureReturnedOutputOnlyAfterCallbackFailure ==
    failedAt # -1 =>
        /\ Returned => gret # OK
        /\ Len(sink) # failedAt =>
             (gname = "androidbp" /\ \E k \in 1..Len(gin.imps) : gin.imps[k] = "error")

\* isTypesOnlyPackage failed inside the callback, and the library section
\* went on writing before the error was returned.
C18_Witness ==
    /\ gname = "androidbp"
    /\ gin.imps = <<"error">>
    /\ failedAt # -1
    /\ Len(sink) > failedAt
    /\ gret = ENUM_ERROR


\* C30 as stated: a package-level generator creates or truncates its output
\* file only after the enumeration of the members and the parse of every
\* member succeeded; when either fails the generator returns the error and
\* has created no file.
C30_Original_FileCreatedOnlyAfterResolution ==
    (gname \in Generators /\ gin.pre \in {"enum-error", "parse-null"}) =>
        /\ file = "NULL"
        /\ ~Constructed
        /\ Returned => gret # OK

\* generateAdapterMainSource has returned the error of the enumeration,
\* after it had opened main.cpp, to which it wrote nothing.
C30_Witness ==
    /\ gname = "c++-adapter-main"
    /\ gin.pre = "enum-error"
    /\ gret = ENUM_ERROR
    /\ file = "file"
    /\ fpc = "destroyed"
    /\ sink = <<>>

----------------------------------------------------------------------------
(***************************************************************************)
(* Two runs of generateMakefileForPackage over the same resolved inputs.   *)
(* The two runs are told the same imports and the same sub-types of        *)
(* types.hal, each in an order of its own; what a run writes is a sequence *)
(* of tokens.                                                              *)
(***************************************************************************)

\* The largest number of imported packages and of sub-types of a run.
MaxDiscovered == 2

\* The names of the section in the order operator< of std::string and of
\* FQName puts them in.
NameOrder == <<"A", "B", "C", "S", "T", "U", "r0", "r1", "r2">>

\* a < b
Precedes(a, b) ==
    \E i, j \in 1..Len(NameOrder) : NameOrder[i] = a /\ NameOrder[j] = b /\ i < j

\* The packages a unit may import and the sub-types of types.hal.
RegenPackages == {"A", "B", "C"}
RegenTypes == {"S", "T", "U"}

\* NamedType::isTypeDef
isTypeDef(t) == t = "U"

\* Coordinator::getPackageRootOption: the root a package lies under, as
\* "<prefix>:<path>"; the generated package and "A" share a root.
getPackageRootOption(p) ==
    CASE p = "IBase" -> "r0"
      [] p \in {Pkg, "A"} -> "r1"
      [] OTHER -> "r2"

\* std::set::insert on the sequence the set iterates in.
SetInsertAtEnd(s, x) ==
    IF \E k \in 1..Len(s) : s[k] = x THEN s ELSE Append(s, x)

SetInsert(s, x) ==
    IF \E k \in 1..Len(s) : s[k] = x
    THEN s
    ELSE LET before == SelectSeq(s, LAMBDA y : Precedes(y, x))
             after  == SelectSeq(s, LAMBDA y : Precedes(x, y))
         IN  before \o <<x>> \o after

\* The set after the elements of a sequence were inserted one by one.
RECURSIVE InsertAll(_, _)
InsertAll(s, xs) ==
    IF xs = <<>> THEN s ELSE InsertAll(SetInsert(s, Head(xs)), Tail(xs))

\* std::sort(subTypes.begin(), subTypes.end(), a->fqName() < b->fqName())
KeepDiscoveryOrder(v) == v

SortByFqName(v) == InsertAll(<<>>, v)

\* The concatenation of f(x) over the elements x of a sequence, in order.
RECURSIVE Flatten(_)
Flatten(ss) ==
    IF ss = <<>> THEN <<>> ELSE Head(ss) \o Flatten(Tail(ss))

ForEach(xs, f(_)) == Flatten([k \in 1..Len(xs) |-> f(xs[k])])

\* generatePackagePathsSection(..., forMakefiles = true)
generatePackagePathsSection(importedPkgs) ==
    LET options == InsertAll(<<>>,
                       [k \in 1..Len(importedPkgs) |->
                            getPackageRootOption(importedPkgs[k])]
                       \o <<getPackageRootOption(Pkg), getPackageRootOption("IBase")>>)
        one(option) == <<"-r", option, " ", "\\\n">>
    IN  ForEach(options, one)

\* generateMakefileSectionForType, as far as it depends on the resolved inputs
RegenSectionForType(name, typeName, importedPkgs) ==
    <<"# Build ", name, typeName>> \o generatePackagePathsSection(importedPkgs)
    \o <<name, typeName>>

\* generateMakefileSection
RegenMakefileSection(interfaces, importedPkgs, types) ==
    LET sorted == SortByFqName(types)
        ofType(t) == IF isTypeDef(t) THEN <<>>
                     ELSE RegenSectionForType("types", t, importedPkgs)
        ofMember(m) == IF m = "types" THEN ForEach(sorted, ofType)
                       ELSE RegenSectionForType(m, "", importedPkgs)
    IN  ForEach(interfaces, ofMember)

\* What generateMakefileForPackage writes for a Java-compatible package.
RegenMakefile(interfaces, importedPkgs, types) ==
    LET lib(p) == <<"\n", p, "-java", " \\">>
    IN  <<"LOCAL_MODULE := ", Pkg, "-java">>
        \o (IF importedPkgs # <<>>
            THEN <<"LOCAL_JAVA_LIBRARIES := \\">> \o ForEach(importedPkgs, lib)
            ELSE <<>>)
        \o RegenMakefileSection(interfaces, importedPkgs, types)
        \o <<"include $(BUILD_JAVA_LIBRARY)">>

\* Coordinator::getFormatter opens the file for writing: what the file held
\* is gone.
OpenForWriting(old) == <<>>

\* The members of the generated package, in the enumeration's order.
RegenInterfaces == <<"IFoo", "types">>

otherThanRegen == <<worldVars, mainVars, compatWorld, compatVars, pkgWorld, pkgVars,
                    fmtVars, genVars, optVars, cacheVars, pathVars, tmplVars>>

\* The loop over packageInterfaces (495-520): every member's imports go
\* into importedPackages; typesAST is kept.
RegenResolve ==
    /\ rpc = "resolve"
    /\ rImported' = InsertAll(<<>>, discovered[run].imports)
    /\ rSubTypes' = discovered[run].types
    /\ rpc' = "write"
    /\ UNCHANGED <<otherThanRegen, discovered, run, content, firstContent>>

\* getFormatter and everything written to Android.mk (536-621).
RegenWrite ==
    /\ rpc = "write"
    /\ content' = OpenForWriting(content)
                  \o RegenMakefile(RegenInterfaces, rImported, rSubTypes)
    /\ firstContent' = IF run = 1 THEN content' ELSE firstContent
    /\ rpc' = "written"
    /\ UNCHANGED <<otherThanRegen, discovered, run, rImported, rSubTypes>>

\* The generator is run again.
RegenAgain ==
    /\ rpc = "written"
    /\ run = 1
    /\ run' = 2
    /\ rpc' = "resolve"
    /\ rImported' = <<>>
    /\ rSubTypes' = <<>>
    /\ UNCHANGED <<otherThanRegen, discovered, content, firstContent>>

\* The sequences of at most n elements of S, the empty one included.
SeqsWithin(S, n) == UNION { [1..k -> S] : k \in 0..n }

\* Two orders report the same things: the same imports, the same sub-types
\* each once.
SameResolved(d, e) ==
    /\ {d.imports[k] : k \in 1..Len(d.imports)} = {e.imports[k] : k \in 1..Len(e.imports)}
    /\ {d.types[k] : k \in 1..Len(d.types)} = {e.types[k] : k \in 1..Len(e.types)}
    /\ Len(d.types) = Len(e.types)
    /\ \A i, j \in 1..Len(d.types) : i # j => d.types[i] # d.types[j]
    /\ \A i, j \in 1..Len(e.types) : i # j => e.types[i] # e.types[j]

InitRegen ==
    /\ IdleWorld
    /\ IdleMain
    /\ IdleCompat
    /\ IdlePkg
    /\ IdleFmt
    /\ IdleGen
    /\ IdleOpt
    /\ IdleCache
    /\ IdlePath
    /\ IdleTmpl
    /\ \E d, e \in [imports : SeqsWithin(RegenPackages, MaxDiscovered),
                    types : SeqsWithin(RegenTypes, MaxDiscovered)] :
            /\ SameResolved(d, e)
            /\ discovered = <<d, e>>
    /\ run = 1
    /\ rpc = "resolve"
    /\ rImported = <<>>
    /\ rSubTypes = <<>>
    /\ content = <<>>
    /\ firstContent = <<>>

NextRegen ==
    \/ RegenResolve
    \/ RegenWrite
    \/ RegenAgain

SpecRegen == InitRegen /\ [][NextRegen]_vars

----------------------------------------------------------------------------
(* Properties of SpecRegen *)

\* C21: for fixed resolved inputs a second run of the generator leaves the
\* file with exactly the content the first run left, in whatever order the
\* imports and the sub-types were reported to either run: the second run
\* replaces the whole file, and the -r options, the imported libraries and
\* the per-type sections come in an order of their names.
C21_RegenerationIsIdentical ==
    (run = 2 /\ rpc = "written") => content = firstContent

\* The second run has written the file, having been told two imports, one
\* of them under the root of the package itself, and two sub-types, each
\* in another order than the first run.
C21_Witness ==
    /\ run = 2
    /\ rpc = "written"
    /\ discovered[1].imports = <<"C", "A">>
    /\ discovered[2].imports = <<"A", "C">>
    /\ discovered[1].types = <<"T", "S">>
    /\ discovered[2].types = <<"S", "T">>
    /\ rImported = <<"A", "C">>
    /\ content = firstContent
    /\ content # <<>>

----------------------------------------------------------------------------
(***************************************************************************)
(* The resolutions of one run of generateMakefileForPackage: every member  *)
(* is resolved in the loop over packageInterfaces and again by             *)
(* isPackageJavaCompatible; generateMakefileSection resolves an interface  *)
(* once more and types.hal once for each sub-type that is not a typedef.   *)
(* An AST is named by the number of the parser invocation that built it,   *)
(* 0 is the null pointer.  The parser is outside the program: whether an   *)
(* invocation succeeds is open each time.                                  *)
(***************************************************************************)

\* The largest number of members of the package.
MaxMembers == 3

\* The largest number of sub-types of types.hal's root scope.
MaxDeclared == 3

\* The member names of the section.
CacheNames == {"IBar", "IFoo", "types"}

\* Coordinator::parse without its cache: the parser runs at every call.
CoordinatorParseUncached(name, parserOK) ==
    LET n == parserRuns[name] + 1
    IN  [ast   |-> IF parserOK THEN n ELSE 0,
         cache |-> mCache,
         runs  |-> [parserRuns EXCEPT ![name] = n]]

\* Coordinator::parse: the cached AST of the name if there is one, else
\* what the parser builds, which is cached unless it is null.
CoordinatorParse(name, parserOK) ==
    IF name \in DOMAIN mCache
    THEN [ast |-> mCache[name], cache |-> mCache, runs |-> parserRuns]
    ELSE LET n == parserRuns[name] + 1
         IN  [ast   |-> IF parserOK THEN n ELSE 0,
              cache |-> IF parserOK THEN mCache @@ (name :> n) ELSE mCache,
              runs  |-> [parserRuns EXCEPT ![name] = n]]

otherThanCache == <<worldVars, mainVars, compatWorld, compatVars, pkgWorld, pkgVars,
                    fmtVars, genVars, optVars, regenVars, pathVars, tmplVars>>

\* What the run is given and does not change.
cacheInputs == <<cNames, cSubTypes, cHaveConstants>>

\* One resolution at a site: the call of parse, logged.
Resolve(name, parserOK, r) ==
    /\ r = CoordinatorParse(name, parserOK)
    /\ mCache' = r.cache
    /\ parserRuns' = r.runs
    /\ resolved' = Append(resolved, [site |-> site, name |-> name, ast |-> r.ast])

\* for (const auto &fqName : packageInterfaces) { AST *ast = parse(fqName);
\*     if (ast == NULL) return UNKNOWN_ERROR; ... }
ResolveInLoop ==
    /\ site = "loop"
    /\ IF sidx > Len(cNames)
       THEN /\ site' = "compat"
            /\ sidx' = Len(cNames)
            /\ UNCHANGED <<mCache, parserRuns, resolved>>
       ELSE \E parserOK \in BOOLEAN :
                LET r == CoordinatorParse(cNames[sidx], parserOK)
                IN  /\ Resolve(cNames[sidx], parserOK, r)
                    /\ IF r.ast = 0
                       THEN site' = "returned" /\ sidx' = sidx
                       ELSE site' = site /\ sidx' = sidx + 1
    /\ UNCHANGED <<otherThanCache, cacheInputs, cCompatible, ssub>>

\* isPackageJavaCompatible: the members are taken from the back of todo; a
\* null AST ends the run with UNKNOWN_ERROR, a unit that is not
\* Java-compatible ends the traversal with *compatible = false, and the run
\* returns OK unless the package has Java constants (lines 522-530).
ResolveInCompat ==
    /\ site = "compat"
    /\ IF sidx = 0
       THEN /\ cCompatible' = TRUE
            /\ site' = "needsJava"
            /\ sidx' = 1
            /\ UNCHANGED <<mCache, parserRuns, resolved>>
       ELSE \E parserOK, javaCompatible \in BOOLEAN :
                LET r == CoordinatorParse(cNames[sidx], parserOK)
                IN  /\ Resolve(cNames[sidx], parserOK, r)
                    /\ IF r.ast = 0
                       THEN /\ site' = "returned"
                            /\ UNCHANGED <<sidx, cCompatible>>
                       ELSE IF ~javaCompatible
                       THEN /\ cCompatible' = FALSE
                            /\ site' = IF cHaveConstants THEN "needsJava" ELSE "returned"
                            /\ sidx' = 1
                       ELSE /\ site' = site
                            /\ sidx' = sidx - 1
                            /\ UNCHANGED cCompatible
    /\ UNCHANGED <<otherThanCache, cacheInputs, ssub>>

\* packageInterfaces and typesAST as the loop left them.
CachePackageInterfaces == [k \in 1..Len(cNames) |-> Unit(Pkg, cNames[k])]
CacheTypesAST ==
    IF \E k \in 1..Len(cNames) : cNames[k] = "types" THEN AST(cSubTypes) ELSE NullAST

\* if (!packageNeedsJavaCode(packageInterfaces, typesAST)) return OK;
\* the "-java" section, and with it generateMakefileSection, is written
\* under packageIsJavaCompatible (line 547).  The call reads element 0 of
\* the vector, which an empty package does not have.
CacheNeedsJavaCode ==
    /\ site = "needsJava"
    /\ \E o \in packageNeedsJavaCode(CachePackageInterfaces, CacheTypesAST) :
           site' = CASE o = "true"  -> IF cCompatible THEN "sections" ELSE "returned"
                     [] o = "false" -> "returned"
                     [] OTHER       -> o
    /\ sidx' = 1
    /\ ssub' = 1
    /\ UNCHANGED <<otherThanCache, cacheInputs, cCompatible, mCache, parserRuns, resolved>>

\* The positions from k on of sub-types that are not typedefs.
NonTypeDefsFrom(k) == { j \in k..Len(cSubTypes) : ~cSubTypes[j] }

\* The smallest element of a non-empty set of numbers.
Least(S) == CHOOSE x \in S : \A y \in S : x <= y

\* generateMakefileSection: an interface is handed to
\* generateMakefileSectionForType once, types.hal once for each sub-type
\* that is not a typedef (if (type->isTypeDef()) continue;), and there:
\* AST *ast = coordinator->parse(fqName); CHECK(ast != nullptr);
ResolveInSections ==
    /\ site = "sections"
    /\ IF sidx > Len(cNames)
       THEN /\ site' = "returned"
            /\ UNCHANGED <<sidx, ssub, mCache, parserRuns, resolved>>
       ELSE IF cNames[sidx] = "types" /\ NonTypeDefsFrom(ssub) = {}
       THEN /\ site' = site
            /\ sidx' = sidx + 1
            /\ ssub' = 1
            /\ UNCHANGED <<mCache, parserRuns, resolved>>
       ELSE \E parserOK \in BOOLEAN :
                LET r == CoordinatorParse(cNames[sidx], parserOK)
                IN  /\ Resolve(cNames[sidx], parserOK, r)
                    /\ IF r.ast = 0
                       THEN site' = "CHECK" /\ UNCHANGED <<sidx, ssub>>
                       ELSE IF cNames[sidx] = "types"
                       THEN /\ site' = site
                            /\ sidx' = sidx
                            /\ ssub' = Least(NonTypeDefsFrom(ssub)) + 1
                       ELSE /\ site' = site
                            /\ sidx' = sidx + 1
                            /\ ssub' = 1
    /\ UNCHANGED <<otherThanCache, cacheInputs, cCompatible>>

InitCache ==
    /\ IdleWorld
    /\ IdleMain
    /\ IdleCompat
    /\ IdlePkg
    /\ IdleFmt
    /\ IdleGen
    /\ IdleOpt
    /\ IdleRegen
    /\ IdlePath
    /\ IdleTmpl
    /\ cNames \in { s \in SeqsWithin(CacheNames, MaxMembers) :
                        \A i, j \in 1..Len(s) : i # j => s[i] # s[j] }
    /\ cSubTypes \in IF \E k \in 1..Len(cNames) : cNames[k] = "types"
                     THEN SeqsWithin(BOOLEAN, MaxDeclared)
                     ELSE {<<>>}
    /\ cHaveConstants \in IF cNames = <<>> THEN {FALSE} ELSE BOOLEAN
    /\ cCompatible = FALSE
    /\ mCache = <<>>
    /\ parserRuns = [n \in CacheNames |-> 0]
    /\ site = "loop"
    /\ sidx = 1
    /\ ssub = 1
    /\ resolved = <<>>

NextCache ==
    \/ ResolveInLoop
    \/ ResolveInCompat
    \/ CacheNeedsJavaCode
    \/ ResolveInSections

SpecCache == InitCache /\ [][NextCache]_vars

----------------------------------------------------------------------------
(* Properties of SpecCache *)

\* C22: within one run every resolution of a name returns the same AST, the
\* parser has been invoked once for every name resolved and never for
\* another, and the CHECK(ast != nullptr) of
\* generateMakefileSectionForType does not fail.
C22_ResolvedOnceAndCheckHolds ==
    /\ \A i, j \in 1..Len(resolved) :
           resolved[i].name = resolved[j].name => resolved[i].ast = resolved[j].ast
    /\ \A n \in CacheNames :
           parserRuns[n] = IF \E i \in 1..Len(resolved) : resolved[i].name = n
                           THEN 1 ELSE 0
    /\ site # "CHECK"

\* An interface and types.hal with two sub-types that are not typedefs
\* were resolved at the three sites, types.hal twice by
\* generateMakefileSection, and the run has returned.
C22_Witness ==
    /\ site = "returned"
    /\ cNames = <<"IFoo", "types">>
    /\ cSubTypes = <<FALSE, FALSE>>
    /\ Len(resolved) = 7
    /\ resolved[1].site = "loop"
    /\ resolved[3].site = "compat"
    /\ resolved[5] = [site |-> "sections", name |-> "IFoo", ast |-> 1]
    /\ resolved[6] = [site |-> "sections", name |-> "types", ast |-> 1]
    /\ resolved[7] = [site |-> "sections", name |-> "types", ast |-> 1]

----------------------------------------------------------------------------
(***************************************************************************)
(* main(): the root path and the output path, from getenv through the      *)
(* options -p and -o to the switch on the handler's output mode.  The      *)
(* handler and the names are taken as given; the Coordinator keeps the     *)
(* root path it is told.                                                   *)
(***************************************************************************)

\* The largest number of -p and -o options on the command line.
MaxPathOpts == 2

\* The paths of the section, each a text; the empty one is what -p '' or an
\* empty ANDROID_BUILD_TOP gives.
Paths == {<<>>, <<"a">>, <<"a", "/">>}

\* OutputHandler::mOutputMode
OutputModes == {"NEEDS_DIR", "NEEDS_FILE", "NEEDS_SRC", "NOT_NEEDED"}

\* Coordinator::setRootPath and Coordinator::getRootPath
setRootPath(path) == path
getRootPath == rootPath

\* std::string::back() != '/' as the build can evaluate it.  On an empty
\* string the read is out of bounds: the answer is either, or the process
\* faults.
LastIsNotSlash(path) ==
    IF path # <<>>
    THEN {IF path[Len(path)] # "/" THEN "true" ELSE "false"}
    ELSE {"true", "false", "SIGSEGV"}

otherThanPath == <<worldVars, mainVars, compatWorld, compatVars, pkgWorld, pkgVars,
                   fmtVars, genVars, optVars, regenVars, cacheVars, tmplVars>>

\* const char *ANDROID_BUILD_TOP = getenv("ANDROID_BUILD_TOP");
\* if (ANDROID_BUILD_TOP != nullptr) coordinator.setRootPath(ANDROID_BUILD_TOP);
PathGetenv ==
    /\ pathPc = "getenv"
    /\ \/ rootPath' = rootPath
       \/ \E v \in Paths : rootPath' = setRootPath(v)
    /\ pathPc' = "getopt"
    /\ UNCHANGED <<otherThanPath, pathMode, pathOut, pathOpts, backReads>>

\* case 'p': coordinator.setRootPath(optarg);
PathOptionP ==
    /\ pathPc = "getopt"
    /\ pathOpts < MaxPathOpts
    /\ \E v \in Paths : rootPath' = setRootPath(v)
    /\ pathOpts' = pathOpts + 1
    /\ UNCHANGED <<otherThanPath, pathMode, pathOut, pathPc, backReads>>

\* case 'o': outputPath = optarg;
PathOptionO ==
    /\ pathPc = "getopt"
    /\ pathOpts < MaxPathOpts
    /\ \E v \in Paths : pathOut' = v
    /\ pathOpts' = pathOpts + 1
    /\ UNCHANGED <<otherThanPath, pathMode, rootPath, pathPc, backReads>>

\* if (outputPath.back() != '/') outputPath += "/";
AppendSlashUnlessLast(path) ==
    \E answer \in LastIsNotSlash(path) :
        /\ backReads' = Append(backReads, path)
        /\ IF answer = "SIGSEGV"
           THEN pathPc' = "SIGSEGV" /\ pathOut' = path
           ELSE /\ pathPc' = "loop"
                /\ pathOut' = IF answer = "true" THEN path \o <<"/">> ELSE path

\* switch (outputFormat->mOutputMode), when getopt has handed out the last
\* option.
PathSwitch ==
    /\ pathPc = "getopt"
    /\ CASE pathMode \in {"NEEDS_DIR", "NEEDS_FILE"} ->
              IF pathOut = <<>>
              THEN pathPc' = "exit1" /\ UNCHANGED <<pathOut, backReads>>
              ELSE IF pathMode = "NEEDS_DIR"
              THEN AppendSlashUnlessLast(pathOut)
              ELSE pathPc' = "loop" /\ UNCHANGED <<pathOut, backReads>>
         [] pathMode = "NEEDS_SRC" ->
              AppendSlashUnlessLast(IF pathOut = <<>> THEN getRootPath ELSE pathOut)
         [] OTHER ->
              pathPc' = "loop" /\ pathOut' = <<>> /\ UNCHANGED backReads
    /\ UNCHANGED <<otherThanPath, pathMode, rootPath, pathOpts>>

InitPath ==
    /\ IdleWorld
    /\ IdleMain
    /\ IdleCompat
    /\ IdlePkg
    /\ IdleFmt
    /\ IdleGen
    /\ IdleOpt
    /\ IdleRegen
    /\ IdleCache
    /\ IdleTmpl
    /\ pathMode \in OutputModes
    /\ pathOut = <<>>
    /\ rootPath = <<>>
    /\ pathPc = "getenv"
    /\ pathOpts = 0
    /\ backReads = <<>>

NextPath ==
    \/ PathGetenv
    \/ PathOptionP
    \/ PathOptionO
    \/ PathSwitch

SpecPath == InitPath /\ [][NextPath]_vars

----------------------------------------------------------------------------
(* Properties of SpecPath *)

\* C25 as stated: the output path handed to generate is not empty and ends
\* with '/' for a handler that needs a directory or the source tree, and is
\* empty for a handler that needs no output; the last character of an empty
\* path is never read.
C25_Original_OutputPathNormalised ==
    /\ pathPc = "loop" =>
          /\ pathMode \in {"NEEDS_DIR", "NEEDS_SRC"} =>
                (pathOut # <<>> /\ pathOut[Len(pathOut)] = "/")
          /\ pathMode = "NOT_NEEDED" => pathOut = <<>>
    /\ \A k \in 1..Len(backReads) : backReads[k] # <<>>

\* A handler that needs the source tree was run without -o while the root
\* path was empty: the last character of the empty output path was read.
C25_Witness ==
    /\ pathMode = "NEEDS_SRC"
    /\ rootPath = <<>>
    /\ backReads = << <<>> >>
    /\ pathPc \in {"loop", "SIGSEGV"}

----------------------------------------------------------------------------
(***************************************************************************)
(* generateAdapterMainSource: the template-argument list of adapterMain.   *)
(* What is written is a sequence of tokens: the adapter's name of a        *)
(* member, ",\n" and ">(".                                                 *)
(***************************************************************************)

\* The member names of the section.
AdapterMembers == {"IBar", "IFoo", "IQux", "types"}

\* interface.getInterfaceAdapterFqName().cppName()
AdapterCppName(name) == <<"adapter of", name>>

otherThanAdapterMain ==
    <<worldVars, mainVars, compatWorld, compatVars, pkgWorld, pkgVars, fmtVars,
      genVars, optVars, regenVars, cacheVars, pathVars>>

\* &interface != &packageInterfaces.back(), for the member at position k
IsNotBack(vec, k) == k # Len(vec)

\* One round of the loop of lines 836-846.
AdapterTemplateArgument ==
    /\ tpc = "list"
    /\ tIdx <= Len(tNames)
    /\ tOut' = IF tNames[tIdx] = "types"
               THEN tOut
               ELSE tOut \o <<AdapterCppName(tNames[tIdx])>>
                         \o (IF IsNotBack(tNames, tIdx) THEN <<",\n">> ELSE <<>>)
    /\ tIdx' = tIdx + 1
    /\ UNCHANGED <<otherThanAdapterMain, tNames, tpc>>

\* out << ">(\"" << packageFQName.string() << "\", argc, argv);\n";
AdapterTemplateClose ==
    /\ tpc = "list"
    /\ tIdx > Len(tNames)
    /\ tOut' = tOut \o <<">(">>
    /\ tpc' = "closed"
    /\ UNCHANGED <<otherThanAdapterMain, tNames, tIdx>>

InitAdapterMain ==
    /\ IdleWorld
    /\ IdleMain
    /\ IdleCompat
    /\ IdlePkg
    /\ IdleFmt
    /\ IdleGen
    /\ IdleOpt
    /\ IdleRegen
    /\ IdleCache
    /\ IdlePath
    /\ tNames \in { s \in SeqsWithin(AdapterMembers, MaxMembers) :
                        \A i, j \in 1..Len(s) : i # j => s[i] # s[j] }
    /\ tIdx = 1
    /\ tOut = <<>>
    /\ tpc = "list"

NextAdapterMain ==
    \/ AdapterTemplateArgument
    \/ AdapterTemplateClose

SpecAdapterMain == InitAdapterMain /\ [][NextAdapterMain]_vars

----------------------------------------------------------------------------
(* Properties of SpecAdapterMain *)

\* The members that are not "types", in member order.
InterfacesOf(vec) == SelectSeq(vec, LAMBDA n : n # "types")

\* The adapters' names of a list of interfaces with ",\n" between
\* consecutive ones.
RECURSIVE CommaSeparated(_)
CommaSeparated(ifaces) ==
    IF ifaces = <<>> THEN <<>>
    ELSE IF Len(ifaces) = 1 THEN <<AdapterCppName(ifaces[1])>>
    ELSE <<AdapterCppName(ifaces[1]), ",\n">> \o CommaSeparated(Tail(ifaces))

\* C29 as stated: the template-argument list holds the adapter's name of
\* every member that is not "types" exactly once, in member order, with a
\* comma between consecutive entries and none after the last, wherever
\* "types" stands in the member list.
C29_Original_CommaSeparatedInterfaces ==
    tpc = "closed" => tOut = CommaSeparated(InterfacesOf(tNames)) \o <<">(">>

\* The list of a package whose members are IBar, IFoo and types, in this
\* order, was written: a comma follows the last entry.
C29_Witness ==
    /\ tpc = "closed"
    /\ tNames = <<"IBar", "IFoo", "types">>
    /\ tOut = <<AdapterCppName("IBar"), ",\n", AdapterCppName("IFoo"), ",\n", ">(">>

====
